---- MODULE Spec2Model ----
(***************************************************************************)
(* Realtime transport of okc-py: one namespace client (LineWSClient or     *)
(* BreaksWSClient, both built on BaseWS), the socket it owns, the          *)
(* background read loop, the tasks spawned for async handlers, and the     *)
(* server at the other end of the socket.                                  *)
(*                                                                         *)
(* Every action is one run of the asyncio event loop between two await     *)
(* points of a coroutine: the code between two awaits runs atomically.     *)
(***************************************************************************)
EXTENDS Integers, Sequences, FiniteSets, TLC

\* ---------------------------------------------------------------- bounds
\* sockets the transport may hand out over one run (ws_connect successes)
MaxSockets == 2
\* messages that may wait unread on one socket
MaxInbox == 1
\* registrations on() may add to the subscriber table
MaxHandlers == 2
\* tasks of async handlers that may be pending when the server sends more
MaxPending == 1

VARIABLES
    client,       \* the namespace client: family and namespace key (fixed)
    session,      \* the HTTP session of the Client: absent, or its PHPSESSID
    ws,           \* self._ws: 0 is None, else an index into socks
    listen_task,  \* self._listen_task: 0 is None, else an index into tasks
    handlers,     \* self._handlers: event -> list of handlers
    socks,        \* the sockets ws_connect has returned
    tasks,        \* the read-loop tasks created so far
    htasks,       \* tasks created for async handlers, not yet finished
    pc,           \* where the caller's coroutine is
    op,           \* the public operation the caller is in (or has just left)
    result,       \* how that operation ended
    hsLog,        \* what connect() received, wrote and spawned in this call
    last,         \* what the last step wrote, whether and how it called
                  \* on_message, which handlers it invoked, how emit() ended
    quiesced      \* a disconnect() has returned and no connect() began since

vars == <<client, session, ws, listen_task, handlers, socks, tasks, htasks,
          pc, op, result, hsLog, last, quiesced>>

\* ------------------------------------------------------------- namespaces
LINE_NAMESPACES ==
    [ntp1 |-> "/ts-line-ntp1-okcdb-ws", ntp2 |-> "/line-ntp2-ws",
     nck |-> "/ts-line-genesys-okcdb-ws"]

BREAK_NAMESPACES ==
    [ntp_one |-> "/ntp-one-break-ws", ntp_two |-> "/ntp-two-break-ws",
     ntp_nck |-> "/break-nck-ntp-ws"]

Clients ==
    {[family |-> "line", key |-> "nck"], [family |-> "breaks", key |-> "ntp_nck"]}

service_url ==
    IF client.family = "line"
    THEN (IF client.key \in DOMAIN LINE_NAMESPACES
          THEN LINE_NAMESPACES[client.key] ELSE LINE_NAMESPACES["nck"])
    ELSE (IF client.key \in DOMAIN BREAK_NAMESPACES
          THEN BREAK_NAMESPACES[client.key] ELSE BREAK_NAMESPACES["ntp_nck"])

\* ------------------------------------------------------------- session
Sessions == {"NoSession", "NoCookie", "PHPSESSID123"}

\* an identifier kept from an earlier connect instead of being read
cached_session_id == "PHPSESSID123"

\* None is "" here
get_session_id ==
    IF session = "NoSession" THEN ""
    ELSE IF session = "NoCookie" THEN "" ELSE session

\* ---------------------------------------------------------------- frames
(* A text frame is <digits><namespace>[,]<body>.  The body is kept as the  *)
(* value its text denotes: k = "none" (no text), "obj" (a JSON object; a   *)
(* names its single key), "list" (a JSON array [a] or [a, b]; b = "" when  *)
(* the array has one element), "raw" (text that is not JSON).              *)
NoBody == [k |-> "none", a |-> "", b |-> ""]
JObj(key) == [k |-> "obj", a |-> key, b |-> ""]
JList(x, y) == [k |-> "list", a |-> x, b |-> y]

Frame(d, ns, sep, body) == [d |-> d, ns |-> ns, sep |-> sep, body |-> body]
NoFrame == Frame("", "", FALSE, NoBody)

PingText == Frame("2", "", FALSE, NoBody)
OpenText == Frame("0", "", FALSE, JObj("sid"))
AckText == Frame("40", service_url, TRUE, JObj("sid"))
ConnectedText == Frame("42", service_url, TRUE, JList("connected", ""))
EventText(e, v) == Frame("42", service_url, TRUE, JList(e, v))

Events == {"pageData"}
Payloads == {"v1"}

\* the event names the two families know, and one they do not
AllEvents == {"authMessage", "userBreaks", "pageData", "rawData", "rawIncidents",
              "other"}

(* Event data, by what the code can tell apart: "" is no data (None), "v1" *)
(* a non-empty map that every decoder of its event accepts, "v_simple" a   *)
(* map that SimplePageData accepts and PageData rejects, "bad" a non-empty *)
(* map with null or wrongly typed fields, "empty" the map {}, "scalar" a   *)
(* value that is no map.                                                   *)
AllPayloads == {"", "v1", "v_simple", "bad", "empty", "scalar"}

\* an event name that is itself a JSON array or object
Unhashable == "<list>"

\* a line frame whose incident lists are null
BadIncidents == EventText("rawIncidents", "bad")

\* what the server may put on the wire
ServerTexts ==
    {OpenText, AckText, ConnectedText, PingText, BadIncidents}
        \cup {EventText(e, v) : e \in Events, v \in Payloads}

\* WSMessage: TEXT carries a frame; CLOSE is the server's close frame (the
\* socket closes itself on receiving it); CLOSED and ERROR report a socket
\* that is gone
Text(f) == [type |-> "TEXT", data |-> f]
Close == [type |-> "CLOSE", data |-> NoFrame]
Closed == [type |-> "CLOSED", data |-> NoFrame]
Error == [type |-> "ERROR", data |-> NoFrame]
Terminals == {Close, Closed, Error}

\* ---------------------------------------------------------------- socket
NewSock == [closed |-> FALSE, eof |-> FALSE, inbox |-> <<>>]

\* a closed socket: nothing more is read from it or written to it
GoneSock == [closed |-> TRUE, eof |-> TRUE, inbox |-> <<>>]

\* self._ws and not self._ws.closed
is_open(S, w) == w # 0 /\ ~S[w].closed

\* a property that is true only once the read loop has been spawned
connected_when_listening == ws # 0 /\ ~socks[ws].closed /\ listen_task # 0

\* is_connected: self._ws is not None and not self._ws.closed
is_connected == ws # 0 /\ ~socks[ws].closed

\* ws.receive() returns at once
Avail(S, s) == S[s].closed \/ S[s].inbox # <<>>

\* the message ws.receive() returns
Recv(S, s) == IF S[s].closed THEN Closed ELSE Head(S[s].inbox)

\* the socket after that receive
AfterRecv(S, s) ==
    IF S[s].closed THEN S
    ELSE IF Head(S[s].inbox).type = "TEXT"
         THEN [S EXCEPT ![s].inbox = Tail(@)]
         ELSE [S EXCEPT ![s] = GoneSock]

\* ws.send_str(f) on socket s, as the step's record of it
Wrote(s, f) == <<[sock |-> s, frame |-> f]>>

\* a close that leaves the socket as it is
close_skipped(S, w) == S

\* if self._ws and not self._ws.closed: await self._ws.close()
close(S, w) ==
    IF is_open(S, w) THEN [S EXCEPT ![w] = GoneSock] ELSE S

\* --------------------------------------------------------- Engine.IO codec
FirstDigit(d) ==
    CASE d \in {"0"} -> 0
      [] d \in {"2"} -> 2
      [] d \in {"3"} -> 3
      [] d \in {"4", "40", "42"} -> 4
      [] OTHER -> -1

\* the digits after the first one
RestDigits(d) ==
    CASE d = "40" -> "0"
      [] d = "42" -> "2"
      [] OTHER -> ""

RawBody == [k |-> "raw", a |-> "", b |-> ""]

\* _parse_engineio_packet: ok = FALSE is None
parse_engineio_packet(f) ==
    IF f = NoFrame \/ FirstDigit(f.d) < 0
    THEN [ok |-> FALSE, type |-> -1, ns |-> "", data |-> NoBody]
    ELSE IF f.ns # ""
         THEN [ok |-> TRUE, type |-> FirstDigit(f.d),
               ns |-> IF RestDigits(f.d) = "" THEN f.ns ELSE "",
               data |-> IF f.sep
                        THEN (IF f.body.k = "none" THEN RawBody ELSE f.body)
                        ELSE NoBody]
         ELSE [ok |-> TRUE, type |-> FirstDigit(f.d), ns |-> "",
               data |-> IF RestDigits(f.d) = "" /\ ~f.sep THEN f.body ELSE RawBody]

\* a packet written without its namespace
packet_without_namespace(digit, data, namespace) ==
    Frame(digit, "", data # NoBody, data)

\* packet = str(packet_type) + namespace + "," + data
engineio_packet(digit, data, namespace) ==
    Frame(digit, namespace, data # NoBody, data)

ConnectPacket == Frame("40", service_url, TRUE, NoBody)
AuthPacket(sid) == Frame("42", service_url, TRUE, JList("id", sid))

\* --------------------------------------------------------------- dispatch
Handlers == {"h_sync", "h_raise", "h_async"}

\* what calling the handler does: a coroutine function is wrapped in a task,
\* a plain function runs and may raise
\* h_reg is a plain function that calls self.on(event, h_sync) for the
\* event it is called with
InvokeHandler(h) ==
    [spawn |-> h = "h_async", exc |-> h = "h_raise", reg |-> h = "h_reg"]

\* a handler call with no try/except around it
Unguarded(o) == o

\* the try/except around one handler call
Guarded(o) == [o EXCEPT !.exc = FALSE]

\* for handler in self._handlers[event]: the loop indexes the list object
\* itself, so an entry appended by a handler is reached by the same loop
RECURSIVE EmitFrom(_, _, _, _, _)
EmitFrom(hs, i, event, value, acc) ==
    IF i > Len(hs) THEN acc
    ELSE LET o == Guarded(InvokeHandler(hs[i]))
             a == [acc EXCEPT !.calls = Append(@, [h |-> hs[i], event |-> event,
                                                   value |-> value]),
                              !.spawned = @ + (IF o.spawn THEN 1 ELSE 0),
                              !.added = IF o.reg THEN Append(@, "h_sync") ELSE @]
         IN IF o.exc THEN [a EXCEPT !.raised = TRUE]
            ELSE EmitFrom(IF o.reg THEN Append(hs, "h_sync") ELSE hs,
                          i + 1, event, value, a)

\* what a call did: the _emit_event calls made (emits), the handlers
\* invoked, the tasks spawned, and whether an exception left the call
\* and the handlers that on() calls made by handlers appended (added)
NoCalls ==
    [calls |-> <<>>, spawned |-> 0, raised |-> FALSE, emits |-> <<>>,
     added |-> <<>>]

\* one call of _emit_event
Emitted(event, value) ==
    [NoCalls EXCEPT !.emits = <<[event |-> event, value |-> value]>>]

\* a dispatch that calls the page-data handlers whatever the event
emit_any(event, value) ==
    EmitFrom(handlers["pageData"], 1, event, value, Emitted(event, value))

\* _emit_event; `event not in self._handlers` raises TypeError when the
\* event is a list or a map
emit_event(event, value) ==
    IF event = Unhashable THEN [NoCalls EXCEPT !.raised = TRUE]
    ELSE IF event \notin DOMAIN handlers \/ handlers[event] = <<>>
         THEN Emitted(event, value)
         ELSE EmitFrom(handlers[event], 1, event, value, Emitted(event, value))

\* event_data and isinstance(event_data, dict)
IsMap(d) == d \in {"v1", "v_simple", "bad"}

\* a choice of decoder that knows the rich page model only
DecoderRich(event) ==
    CASE event = "authMessage" -> "AuthMessage"
      [] event = "userBreaks" -> "UserBreaks"
      [] event = "pageData" -> "PageData"
      [] OTHER -> ""

\* the Pydantic model the break-room client decodes the event with
Decoder(event) ==
    CASE event = "authMessage" -> "AuthMessage"
      [] event = "userBreaks" -> "UserBreaks"
      [] event = "pageData" -> IF client.key \in {"ntp_one", "ntp_two"}
                               THEN "SimplePageData" ELSE "PageData"
      [] OTHER -> ""

\* Model(**event_data) does not raise
Validates(model, d) == d = "v1" \/ (d = "v_simple" /\ model # "PageData")

Raw(d) == [typed |-> FALSE, v |-> d, model |-> ""]

\* the typed value a break-room event decodes to, or the raw one
Decoded(event, data) ==
    IF Decoder(event) # "" /\ IsMap(data) /\ Validates(Decoder(event), data)
    THEN [typed |-> TRUE, v |-> data, model |-> Decoder(event)]
    ELSE Raw(data)

\* the incident count of the line client: len(event_data.get(...)) raises
\* TypeError when a list of incidents is null or a number
CountRaises(event, data) == event = "rawIncidents" /\ data = "bad"

\* an on_message that takes the event name from whatever it is given
on_message_unchecked(data) == emit_event(data.a, Raw(data.b))

\* on_message of the two families
on_message(data) ==
    IF data.k # "list" \/ data.a = "" THEN NoCalls
    ELSE IF client.family = "line"
         THEN (IF CountRaises(data.a, data.b) THEN [NoCalls EXCEPT !.raised = TRUE]
               ELSE emit_event(data.a, Raw(data.b)))
         ELSE emit_event(data.a, Decoded(data.a, data.b))

\* ------------------------------------------------------------------ Init
NoHandlers == [e \in AllEvents |-> <<>>]

(* A step that wrote nothing, did not call on_message (arg is the data it  *)
(* was called with, raised whether an exception left it), made no call of  *)
(* _emit_event, invoked no handler and was no emit().                      *)
Quiet == [wrote |-> <<>>, onmsg |-> FALSE, arg |-> NoBody, raised |-> FALSE,
          emits |-> <<>>, calls |-> <<>>, emit |-> "none"]

\* what a step that called on_message(data) with the outcome r leaves in last
Handled(data, r) ==
    [Quiet EXCEPT !.onmsg = TRUE, !.arg = data, !.raised = r.raised,
                  !.emits = r.emits, !.calls = r.calls]

Init ==
    /\ client \in Clients
    /\ session \in Sessions
    /\ ws = 0
    /\ listen_task = 0
    /\ handlers = NoHandlers
    /\ socks = <<>>
    /\ tasks = <<>>
    /\ htasks = 0
    /\ pc = "idle"
    /\ op = "none"
    /\ result = "none"
    /\ hsLog = <<>>
    /\ last = Quiet
    /\ quiesced = FALSE

\* ------------------------------------------------------------ disconnect
\* a test that finds no read loop to cancel
TaskGone(t) == FALSE

\* self._listen_task and not self._listen_task.done()
TaskLive(t) == t # 0 /\ tasks[t].st # "done"

\* task t waits in receive() and a text frame is already there for it
Buffered(S, t) ==
    /\ tasks[t].st = "waiting"
    /\ ~S[tasks[t].sock].closed
    /\ S[tasks[t].sock].inbox # <<>>
    /\ Head(S[tasks[t].sock].inbox).type = "TEXT"

\* how the call ends for its caller: connect() re-raises after disconnect()
Outcome(o) == IF o = "connect" THEN "raised" ELSE "ok"

(* disconnect() from its first line to its first suspension, entered with   *)
(* the sockets S and the handle w, on behalf of operation o: a live read    *)
(* loop is cancelled and awaited; otherwise the socket is closed, the       *)
(* handle cleared and the call returns (connect() then re-raises).          *)
disconnect(S, w, o) ==
    IF TaskLive(listen_task)
    THEN /\ tasks' = [tasks EXCEPT ![listen_task].cancel = TRUE,
                                   ![listen_task].cut = Buffered(S, listen_task)]
         /\ socks' = S
         /\ ws' = w
         /\ pc' = "d_await"
         /\ result' = "none"
         /\ quiesced' = FALSE
    ELSE /\ tasks' = tasks
         /\ socks' = close(S, w)
         /\ ws' = 0
         /\ pc' = "ret"
         /\ result' = Outcome(o)
         /\ quiesced' = TRUE

\* disconnect() is called
DisconnectCall ==
    /\ pc = "idle"
    /\ op' = "disconnect"
    /\ hsLog' = <<>>
    /\ last' = Quiet
    /\ disconnect(socks, ws, "disconnect")
    /\ UNCHANGED <<client, session, listen_task, handlers, htasks>>

\* await self._listen_task returns; the socket is closed, the handle cleared
DisconnectAwait ==
    /\ pc = "d_await"
    /\ ~TaskLive(listen_task)
    /\ socks' = close(socks, ws)
    /\ ws' = 0
    /\ pc' = "ret"
    /\ result' = Outcome(op)
    /\ quiesced' = TRUE
    /\ last' = Quiet
    /\ UNCHANGED <<client, session, listen_task, handlers, tasks, htasks, op, hsLog>>

\* --------------------------------------------------------------- connect
\* entries of hsLog: a message received (exp: it is the one the handshake
\* expects at this step), a frame written, the read loop spawned
Rx(m, exp) == [ev |-> "rx", type |-> m.type, exp |-> exp, data |-> NoFrame]
Tx(f) == [ev |-> "tx", type |-> "TEXT", exp |-> TRUE, data |-> f]
Spawn == [ev |-> "spawn", type |-> "", exp |-> TRUE, data |-> NoFrame]

\* an except branch that re-raises without disconnect()
FailBare(S, log) ==
    /\ hsLog' = log
    /\ last' = Quiet
    /\ socks' = S
    /\ pc' = "ret"
    /\ result' = "raised"
    /\ UNCHANGED <<client, session, ws, listen_task, handlers, tasks, htasks, op,
                   quiesced>>

\* an except branch that closes the socket and opens the next one itself
FailRetry(S, log) ==
    /\ hsLog' = <<>>
    /\ last' = Quiet
    /\ socks' = close(S, ws)
    /\ ws' = 0
    /\ pc' = "c_opening"
    /\ result' = "none"
    /\ UNCHANGED <<client, session, listen_task, handlers, tasks, htasks, op,
                   quiesced>>

\* the except branch of connect(): disconnect(), then re-raise
Fail(S, log) ==
    /\ hsLog' = log
    /\ last' = Quiet
    /\ disconnect(S, ws, "connect")
    /\ UNCHANGED <<client, session, listen_task, handlers, htasks, op>>

\* a guard that never finds the client connected
never_connected == FALSE

\* the guard of connect(): self._ws and not self._ws.closed
already_connected == ws # 0 /\ ~socks[ws].closed

\* connect() is called: the guard, then up to the await of ws_connect
ConnectCall ==
    /\ pc = "idle"
    /\ op' = "connect"
    /\ hsLog' = <<>>
    /\ last' = Quiet
    /\ IF already_connected
       THEN /\ pc' = "ret"
            /\ result' = "ok"
            /\ UNCHANGED <<ws, socks, tasks, quiesced>>
       ELSE IF session = "NoSession"
            THEN disconnect(socks, ws, "connect")
            ELSE /\ pc' = "c_opening"
                 /\ result' = "none"
                 /\ quiesced' = FALSE
                 /\ UNCHANGED <<ws, socks, tasks>>
    /\ UNCHANGED <<client, session, listen_task, handlers, htasks>>

(* A task the event loop can run now: one that was created or cancelled and *)
(* has not run since, or one whose receive() has a message.  The loop runs  *)
(* every such task before it handles network events of a later turn, so a   *)
(* connection that takes round trips to open, and a timer of five seconds,  *)
(* complete only when no task is ready.                                     *)
Ready(t) ==
    /\ tasks[t].st # "done"
    /\ \/ tasks[t].st = "created"
       \/ tasks[t].cancel
       \/ Avail(socks, tasks[t].sock)

NoneReady == \A t \in DOMAIN tasks : ~Ready(t)

\* a ws_connect that hands back the socket of the connection before
OpenReuse ==
    /\ pc = "c_opening"
    /\ NoneReady
    /\ IF socks = <<>>
       THEN /\ socks' = Append(socks, NewSock)
            /\ ws' = 1
       ELSE /\ socks' = socks
            /\ ws' = Len(socks)
    /\ pc' = "c_wait_open"
    /\ last' = Quiet
    /\ UNCHANGED <<client, session, listen_task, handlers, tasks, htasks, op,
                   result, hsLog, quiesced>>

\* session.ws_connect returns a socket
OpenOk ==
    /\ pc = "c_opening"
    /\ NoneReady
    /\ Len(socks) < MaxSockets
    /\ socks' = Append(socks, NewSock)
    /\ ws' = Len(socks) + 1
    /\ pc' = "c_wait_open"
    /\ last' = Quiet
    /\ UNCHANGED <<client, session, listen_task, handlers, tasks, htasks, op,
                   result, hsLog, quiesced>>

\* session.ws_connect raises
OpenFail ==
    /\ pc = "c_opening"
    /\ Fail(socks, hsLog)

\* the handshake moves on to the state p, having written the frames w
Proceed(S, log, w, p) ==
    /\ socks' = S
    /\ hsLog' = log
    /\ pc' = p
    /\ last' = [Quiet EXCEPT !.wrote = w]
    /\ UNCHANGED <<client, session, ws, listen_task, handlers, tasks, htasks, op,
                   result, quiesced>>

\* asyncio.create_task(self._listen_messages()), and connect() returns
Listen(S, log, w) ==
    /\ socks' = S
    /\ hsLog' = Append(log, Spawn)
    /\ tasks' = Append(tasks, [st |-> "created", sock |-> 0, cancel |-> FALSE,
                                 cut |-> FALSE, end |-> "", exc |-> FALSE])
    /\ listen_task' = Len(tasks) + 1
    /\ pc' = "ret"
    /\ result' = "ok"
    /\ last' = [Quiet EXCEPT !.wrote = w]
    /\ UNCHANGED <<client, session, ws, handlers, htasks, op, quiesced>>

(* _connect_websocket after ws_connect (the Engine.IO open), then           *)
(* _send_connect_packet; send_str raises on a socket that has closed.       *)
WaitOpen ==
    /\ pc = "c_wait_open"
    /\ Avail(socks, ws)
    /\ LET m == Recv(socks, ws)
           S == AfterRecv(socks, ws)
           log == Append(hsLog, Rx(m, m.type = "TEXT" /\ m.data.d = "0"))
       IN IF m.type \in {"CLOSED", "ERROR"} \/ S[ws].closed
          THEN Fail(S, log)
          ELSE Proceed(S, Append(log, Tx(ConnectPacket)),
                       Wrote(ws, ConnectPacket), "c_wait_ack")

\* json.loads of the part after the first comma, and the "sid" lookup, raise
AckRaises(f) == f.sep /\ f.body.k \in {"none", "raw"}

\* an authentication step that writes whatever the session and the socket are
auth_unchecked(S, w) ==
    [raised |-> FALSE, wrote |-> <<AuthPacket(get_session_id)>>]

\* _send_authentication: whether it raises, and the frame it writes
send_authentication(S, w) ==
    IF get_session_id = "" THEN [raised |-> FALSE, wrote |-> <<>>]
    ELSE IF S[w].closed THEN [raised |-> TRUE, wrote |-> <<>>]
    ELSE [raised |-> FALSE, wrote |-> <<AuthPacket(get_session_id)>>]

TxAll(fs) == [i \in DOMAIN fs |-> Tx(fs[i])]
WroteAll(w, fs) == [i \in DOMAIN fs |-> [sock |-> w, frame |-> fs[i]]]

\* a handshake that authenticates right after the acknowledgement
awaits_nothing == FALSE

\* the line client waits for one more message before it authenticates
awaits_connected == client.family = "line"

(* _handle_connect_response; the break-room client then authenticates and   *)
(* starts the read loop at once.                                            *)
WaitAck ==
    /\ pc = "c_wait_ack"
    /\ Avail(socks, ws)
    /\ LET m == Recv(socks, ws)
           S == AfterRecv(socks, ws)
           log == Append(hsLog, Rx(m, m.type = "TEXT" /\ m.data.d = "40"))
           a == send_authentication(S, ws)
       IN IF \/ m.type \in {"CLOSED", "ERROR"}
             \/ (m.type = "TEXT" /\ m.data.d = "40" /\ AckRaises(m.data))
          THEN Fail(S, log)
          ELSE IF awaits_connected
               THEN Proceed(S, log, <<>>, "c_wait_second")
               ELSE IF a.raised THEN Fail(S, log)
                    ELSE Listen(S, log \o TxAll(a.wrote), WroteAll(ws, a.wrote))

\* _handle_second_message, then _send_authentication (line client)
WaitSecond ==
    /\ pc = "c_wait_second"
    /\ Avail(socks, ws)
    /\ LET m == Recv(socks, ws)
           S == AfterRecv(socks, ws)
           log == Append(hsLog, Rx(m, m = Text(ConnectedText)))
           a == send_authentication(S, ws)
       IN IF m.type \in {"CLOSED", "ERROR"} \/ a.raised
          THEN Fail(S, log)
          ELSE Proceed(S, log \o TxAll(a.wrote), WroteAll(ws, a.wrote),
                       "c_wait_final")

\* the message _finalize_connection has received lets the handshake end
FinalOk(m) == TRUE

\* _finalize_connection (line client)
WaitFinal ==
    /\ pc = "c_wait_final"
    /\ Avail(socks, ws)
    /\ LET m == Recv(socks, ws)
           S == AfterRecv(socks, ws)
           log == Append(hsLog, Rx(m, m.type = "TEXT"))
       IN IF FinalOk(m) THEN Listen(S, log, <<>>) ELSE Fail(S, log)

\* the waits that run under asyncio.wait_for(..., timeout=5.0)
TimedWaits == {"c_wait_ack", "c_wait_second", "c_wait_final"}

\* asyncio.TimeoutError at a handshake wait
HsTimeout ==
    /\ pc \in TimedWaits
    /\ NoneReady
    /\ ~Avail(socks, ws)
    /\ Fail(socks, hsLog)

(* connect() or disconnect() has returned or raised, pc = "ret": the caller's *)
(* next line runs in the same turn of the event loop, so no other task and  *)
(* no message delivery comes between the return and this step.              *)
Continue ==
    /\ pc = "ret"
    /\ pc' = "idle"
    /\ op' = "none"
    /\ result' = "none"
    /\ hsLog' = <<>>
    /\ last' = Quiet
    /\ UNCHANGED <<client, session, ws, listen_task, handlers, socks, tasks,
                   htasks, quiesced>>

\* ------------------------------------------------------------- read loop
\* an except clause that logs and re-raises
Reraised(x) == x = "error"

(* Whether x leaves _listen_messages as an exception: "stop" is the end of *)
(* the async for, "cancel" a CancelledError, "error" any other Exception;  *)
(* both except clauses log and return.                                     *)
Escapes(x) == FALSE

\* task t has ended because of x (cancel stays set on a cancelled task)
Done(t, x) ==
    [tasks EXCEPT ![t].st = "done", ![t].sock = 0, ![t].end = x,
                  ![t].exc = Escapes(x)]

\* a test that takes no frame for a ping
never_ping(f) == FALSE

\* raw_message == "2"
is_ping(f) == f = PingText

\* _send_engineio_packet(3) raises: no handle, or a socket that has closed
PongRaises == ws = 0 \/ socks[ws].closed

\* a dispatcher that awaits the coroutine handlers it has started
awaits_handlers == htasks > 0

\* _emit_event hands a coroutine handler to create_task and goes on: the
\* read loop is never held up by the handlers it started
held_by_handlers == FALSE

(* One step of _listen_messages, task t.  A cancelled task ends at its     *)
(* await (CancelledError is caught and logged); a task that has not run    *)
(* yet takes self._ws as the socket it iterates; a waiting task takes the  *)
(* next message: a text frame goes to _handle_raw_message, anything else   *)
(* ends the loop, and so does an exception.                                *)
Loop(t) ==
    /\ pc # "ret"
    /\ ~held_by_handlers
    /\ tasks[t].st # "done"
    /\ IF tasks[t].cancel
       THEN /\ tasks' = Done(t, "cancel")
            /\ last' = Quiet
            /\ UNCHANGED <<socks, htasks>>
       ELSE IF tasks[t].st = "created"
            THEN /\ tasks' = IF ws = 0 THEN Done(t, "error")
                             ELSE [tasks EXCEPT ![t].st = "waiting", ![t].sock = ws]
                 /\ last' = Quiet
                 /\ UNCHANGED <<socks, htasks>>
            ELSE LET s == tasks[t].sock
                     m == Recv(socks, s)
                     p == parse_engineio_packet(m.data)
                     r == IF p.ok /\ p.type = 4 THEN on_message(p.data) ELSE NoCalls
                 IN /\ Avail(socks, s)
                    /\ socks' = AfterRecv(socks, s)
                    /\ IF m.type # "TEXT"
                       THEN /\ tasks' = Done(t, "stop")
                            /\ last' = Quiet
                            /\ htasks' = htasks
                       ELSE IF is_ping(m.data)
                            THEN /\ tasks' = IF PongRaises THEN Done(t, "error") ELSE tasks
                                 /\ last' = IF PongRaises THEN Quiet
                                            ELSE [Quiet EXCEPT !.wrote =
                                                    Wrote(ws, engineio_packet("3", NoBody, ""))]
                                 /\ htasks' = htasks
                            ELSE /\ tasks' = IF r.raised THEN Done(t, "error") ELSE tasks
                                 /\ last' = IF p.ok /\ p.type = 4
                                            THEN Handled(p.data, r) ELSE Quiet
                                 /\ htasks' = htasks + r.spawned
    /\ UNCHANGED <<client, session, ws, listen_task, handlers, pc, op, result,
                   hsLog, quiesced>>

\* a task created for an async handler runs to its end
HandlerTask ==
    /\ pc # "ret"
    /\ htasks > 0
    /\ htasks' = htasks - 1
    /\ last' = Quiet
    /\ UNCHANGED <<client, session, ws, listen_task, handlers, socks, tasks, pc,
                   op, result, hsLog, quiesced>>

\* ------------------------------------------------------------- emit, on
\* a guard that only looks at the handle
no_handle == ws = 0

\* the guard of emit(): not self._ws or self._ws.closed
not_connected == ws = 0 \/ socks[ws].closed

\* emit(event, data); d = "" is data = None
Emit(e, d) ==
    /\ pc # "ret"
    /\ last' = IF not_connected
               THEN [Quiet EXCEPT !.emit = "NotConnected"]
               ELSE [Quiet EXCEPT !.emit = "ok",
                                  !.wrote = Wrote(ws, engineio_packet("4", JList(e, d),
                                                                      service_url))]
    /\ UNCHANGED <<client, session, ws, listen_task, handlers, socks, tasks,
                   htasks, pc, op, result, hsLog, quiesced>>

RECURSIVE Registered(_)
Registered(E) ==
    IF E = {} THEN 0
    ELSE LET e == CHOOSE x \in E : TRUE
         IN Len(handlers[e]) + Registered(E \ {e})

\* a registration that replaces the list of the event
OnReplace(e, h) ==
    /\ pc = "idle"
    /\ Registered(DOMAIN handlers) < MaxHandlers
    /\ handlers' = [handlers EXCEPT ![e] = <<h>>]
    /\ last' = Quiet
    /\ UNCHANGED <<client, session, ws, listen_task, socks, tasks, htasks, pc, op,
                   result, hsLog, quiesced>>

\* on(event, handler)
On(e, h) ==
    /\ pc = "idle"
    /\ Registered(DOMAIN handlers) < MaxHandlers
    /\ handlers' = [handlers EXCEPT ![e] = Append(@, h)]
    /\ last' = Quiet
    /\ UNCHANGED <<client, session, ws, listen_task, socks, tasks, htasks, pc, op,
                   result, hsLog, quiesced>>

\* ---------------------------------------------------------------- server
\* the server sends a text frame on socket s
ServerSend(s, f) ==
    /\ pc # "ret"
    /\ ~socks[s].closed
    /\ ~socks[s].eof
    /\ Len(socks[s].inbox) < MaxInbox
    /\ htasks < MaxPending
    /\ socks' = [socks EXCEPT ![s].inbox = Append(@, Text(f))]
    /\ last' = Quiet
    /\ UNCHANGED <<client, session, ws, listen_task, handlers, tasks, htasks, pc,
                   op, result, hsLog, quiesced>>

\* the server closes socket s, or the connection breaks
ServerEnd(s, m) ==
    /\ pc # "ret"
    /\ ~socks[s].closed
    /\ ~socks[s].eof
    /\ socks' = [socks EXCEPT ![s].inbox = Append(@, m), ![s].eof = TRUE]
    /\ last' = Quiet
    /\ UNCHANGED <<client, session, ws, listen_task, handlers, tasks, htasks, pc,
                   op, result, hsLog, quiesced>>

\* ------------------------------------------------------------------ Next
Next ==
    \/ ConnectCall
    \/ OpenOk
    \/ OpenFail
    \/ WaitOpen
    \/ WaitAck
    \/ WaitSecond
    \/ WaitFinal
    \/ HsTimeout
    \/ DisconnectCall
    \/ DisconnectAwait
    \/ Continue
    \/ \E t \in DOMAIN tasks : Loop(t)
    \/ HandlerTask
    \/ \E e \in Events, d \in Payloads \cup {""} : Emit(e, d)
    \/ \E e \in Events, h \in Handlers : On(e, h)
    \/ \E s \in DOMAIN socks, f \in ServerTexts : ServerSend(s, f)
    \/ \E s \in DOMAIN socks, m \in Terminals : ServerEnd(s, m)

Spec == Init /\ [][Next]_vars

\* ------------------------------------------------- on_message on its own
(* on_message and _emit_event as functions of the client, the subscriber    *)
(* table and the data of one frame: every namespace of both families, every *)
(* event name and every shape of event data.                                *)
InitMsg ==
    /\ client \in {[family |-> "line", key |-> k] : k \in DOMAIN LINE_NAMESPACES}
                 \cup {[family |-> "breaks", key |-> k] :
                          k \in DOMAIN BREAK_NAMESPACES}
    /\ session = "PHPSESSID123"
    /\ ws = 0
    /\ listen_task = 0
    /\ handlers = NoHandlers
    /\ socks = <<>>
    /\ tasks = <<>>
    /\ htasks = 0
    /\ pc = "idle"
    /\ op = "none"
    /\ result = "none"
    /\ hsLog = <<>>
    /\ last = Quiet
    /\ quiesced = FALSE

\* await self.on_message([e, d]); d = "" is a list of one element
OnMessage(e, d) ==
    /\ htasks < MaxPending
    /\ LET r == on_message(JList(e, d))
       IN /\ last' = Handled(JList(e, d), r)
          /\ htasks' = htasks + r.spawned
    /\ UNCHANGED <<client, session, ws, listen_task, handlers, socks, tasks, pc,
                   op, result, hsLog, quiesced>>

NextMsg ==
    \/ \E e \in AllEvents, h \in Handlers : On(e, h)
    \/ \E e \in AllEvents \cup {Unhashable}, d \in AllPayloads : OnMessage(e, d)
    \/ HandlerTask

SpecMsg == InitMsg /\ [][NextMsg]_vars

\* ------------------------------------------------ two callers of connect()
(* Two tasks of the caller each run connect() on the same client.  Here pc  *)
(* gives, per caller, where its coroutine is (at) and the socket or task it *)
(* is suspended on (on): a receive() that is awaited stays bound to the     *)
(* socket self._ws named when it was issued, while every later statement    *)
(* reads self._ws afresh.  Both callers have a PHPSESSID; no handler is     *)
(* registered.                                                              *)
Callers == {1, 2}

Waits == {"c_wait_open", "c_wait_ack", "c_wait_second", "c_wait_final"}

At(c, a, x) == [pc EXCEPT ![c] = [at |-> a, on |-> x]]

InitTwo ==
    /\ client \in Clients
    /\ session = "PHPSESSID123"
    /\ ws = 0
    /\ listen_task = 0
    /\ handlers = NoHandlers
    /\ socks = <<>>
    /\ tasks = <<>>
    /\ htasks = 0
    /\ pc = [c \in Callers |-> [at |-> "idle", on |-> 0]]
    /\ op = [c \in Callers |-> "connect"]
    /\ result = [c \in Callers |-> "none"]
    /\ hsLog = <<>>
    /\ last = Quiet
    /\ quiesced = FALSE

\* a caller that has returned runs on before anything else does
NoneReturning == \A c \in Callers : pc[c].at # "ret"

(* receive() on socket x raises RuntimeError (concurrent call) when another *)
(* caller or a read loop is suspended in receive() on x                     *)
Busy(c, x) ==
    \/ \E d \in Callers \ {c} : pc[d].at \in Waits /\ pc[d].on = x
    \/ \E t \in DOMAIN tasks : tasks[t].st = "waiting" /\ tasks[t].sock = x

\* the except branch of connect() in caller c: disconnect(), then re-raise
Fail2(c, S) ==
    /\ IF TaskLive(listen_task)
       THEN /\ tasks' = [tasks EXCEPT ![listen_task].cancel = TRUE,
                                      ![listen_task].cut = Buffered(S, listen_task)]
            /\ socks' = S
            /\ ws' = ws
            /\ pc' = At(c, "d_await", listen_task)
            /\ result' = result
       ELSE /\ tasks' = tasks
            /\ socks' = close(S, ws)
            /\ ws' = 0
            /\ pc' = At(c, "ret", 0)
            /\ result' = [result EXCEPT ![c] = "raised"]
    /\ UNCHANGED listen_task

\* caller c: the task it cancelled has ended; close self._ws, clear it, raise
Await2(c) ==
    /\ NoneReturning
    /\ pc[c].at = "d_await"
    /\ tasks[pc[c].on].st = "done"
    /\ socks' = close(socks, ws)
    /\ ws' = 0
    /\ pc' = At(c, "ret", 0)
    /\ result' = [result EXCEPT ![c] = "raised"]
    /\ UNCHANGED <<client, session, listen_task, handlers, tasks, htasks, op,
                   hsLog, last, quiesced>>

\* caller c calls connect(): the guard, then up to the await of ws_connect
Connect2Call(c) ==
    /\ NoneReturning
    /\ pc[c].at = "idle"
    /\ IF already_connected
       THEN /\ pc' = At(c, "ret", 0)
            /\ result' = [result EXCEPT ![c] = "ok"]
       ELSE /\ pc' = At(c, "c_opening", 0)
            /\ result' = result
    /\ UNCHANGED <<client, session, ws, listen_task, handlers, socks, tasks,
                   htasks, op, hsLog, last, quiesced>>

\* caller c: ws_connect returns; self._ws is assigned, receive() is awaited
Open2Ok(c) ==
    /\ NoneReturning
    /\ pc[c].at = "c_opening"
    /\ NoneReady
    /\ Len(socks) < MaxSockets
    /\ socks' = Append(socks, NewSock)
    /\ ws' = Len(socks) + 1
    /\ pc' = At(c, "c_wait_open", Len(socks) + 1)
    /\ UNCHANGED <<client, session, listen_task, handlers, tasks, htasks, op,
                   result, hsLog, last, quiesced>>

\* caller c: ws_connect raises
Open2Fail(c) ==
    /\ NoneReturning
    /\ pc[c].at = "c_opening"
    /\ Fail2(c, socks)
    /\ UNCHANGED <<client, session, handlers, htasks, op, hsLog, last, quiesced>>

\* caller c awaits the next receive(), issued on the socket self._ws names now
Issue(c, S, a) ==
    IF ws = 0 \/ Busy(c, ws)
    THEN Fail2(c, S)
    ELSE /\ socks' = S
         /\ pc' = At(c, a, ws)
         /\ UNCHANGED <<ws, listen_task, tasks, result>>

\* caller c: _finalize_connection creates the read loop; connect() returns
Listen2(c, S) ==
    /\ socks' = S
    /\ tasks' = Append(tasks, [st |-> "created", sock |-> 0, cancel |-> FALSE,
                               cut |-> FALSE, end |-> "", exc |-> FALSE])
    /\ listen_task' = Len(tasks) + 1
    /\ pc' = At(c, "ret", 0)
    /\ result' = [result EXCEPT ![c] = "ok"]
    /\ ws' = ws

(* caller c: the receive() it awaits returns m; the rest of the handshake   *)
(* step runs, sending through self._ws, up to the next await                *)
Hs2(c) ==
    /\ NoneReturning
    /\ pc[c].at \in Waits
    /\ Avail(socks, pc[c].on)
    /\ LET a == pc[c].at
           m == Recv(socks, pc[c].on)
           S == AfterRecv(socks, pc[c].on)
           gone == m.type \in {"CLOSED", "ERROR"}
           dead == ws = 0 \/ S[ws].closed
       IN IF a = "c_wait_open"
          THEN IF gone \/ dead THEN Fail2(c, S) ELSE Issue(c, S, "c_wait_ack")
          ELSE IF a = "c_wait_ack"
          THEN IF gone \/ (m.type = "TEXT" /\ m.data.d = "40" /\ AckRaises(m.data))
               THEN Fail2(c, S)
               ELSE IF awaits_connected THEN Issue(c, S, "c_wait_second")
                    ELSE IF dead THEN Fail2(c, S) ELSE Listen2(c, S)
          ELSE IF a = "c_wait_second"
          THEN IF gone \/ dead THEN Fail2(c, S) ELSE Issue(c, S, "c_wait_final")
          ELSE IF FinalOk(m) THEN Listen2(c, S) ELSE Fail2(c, S)
    /\ UNCHANGED <<client, session, handlers, htasks, op, hsLog, last, quiesced>>

\* caller c: asyncio.TimeoutError at a handshake wait
HsTimeout2(c) ==
    /\ NoneReturning
    /\ pc[c].at \in TimedWaits
    /\ NoneReady
    /\ ~Avail(socks, pc[c].on)
    /\ Fail2(c, socks)
    /\ UNCHANGED <<client, session, handlers, htasks, op, hsLog, last, quiesced>>

\* caller c runs on after connect() has returned or raised
Continue2(c) ==
    /\ pc[c].at = "ret"
    /\ pc' = At(c, "idle", 0)
    /\ result' = [result EXCEPT ![c] = "none"]
    /\ UNCHANGED <<client, session, ws, listen_task, handlers, socks, tasks,
                   htasks, op, hsLog, last, quiesced>>

\* one step of _listen_messages, task t, beside two callers
Loop2(t) ==
    /\ NoneReturning
    /\ tasks[t].st # "done"
    /\ IF tasks[t].cancel
       THEN /\ tasks' = Done(t, "cancel")
            /\ socks' = socks
       ELSE IF tasks[t].st = "created"
            THEN /\ tasks' = IF ws = 0 \/ Busy(0, ws) THEN Done(t, "error")
                             ELSE [tasks EXCEPT ![t].st = "waiting", ![t].sock = ws]
                 /\ socks' = socks
            ELSE LET s == tasks[t].sock
                     m == Recv(socks, s)
                 IN /\ Avail(socks, s)
                    /\ socks' = AfterRecv(socks, s)
                    /\ tasks' = IF m.type # "TEXT" THEN Done(t, "stop")
                                ELSE IF is_ping(m.data) /\ PongRaises
                                     THEN Done(t, "error") ELSE tasks
    /\ UNCHANGED <<client, session, ws, listen_task, handlers, htasks, pc, op,
                   result, hsLog, last, quiesced>>

(* the server sends a handshake frame on socket s; the event loop takes new  *)
(* input only when no task is ready to run                                  *)
Server2Send(s, f) ==
    /\ NoneReturning
    /\ NoneReady
    /\ ~socks[s].closed
    /\ ~socks[s].eof
    /\ Len(socks[s].inbox) < MaxInbox
    /\ socks' = [socks EXCEPT ![s].inbox = Append(@, Text(f))]
    /\ UNCHANGED <<client, session, ws, listen_task, handlers, tasks, htasks, pc,
                   op, result, hsLog, last, quiesced>>

\* the server closes socket s, or the connection breaks
Server2End(s, m) ==
    /\ NoneReturning
    /\ NoneReady
    /\ ~socks[s].closed
    /\ ~socks[s].eof
    /\ socks' = [socks EXCEPT ![s].inbox = Append(@, m), ![s].eof = TRUE]
    /\ UNCHANGED <<client, session, ws, listen_task, handlers, tasks, htasks, pc,
                   op, result, hsLog, last, quiesced>>

NextTwo ==
    \/ \E c \in Callers : Connect2Call(c)
    \/ \E c \in Callers : Open2Ok(c)
    \/ \E c \in Callers : Open2Fail(c)
    \/ \E c \in Callers : Hs2(c)
    \/ \E c \in Callers : HsTimeout2(c)
    \/ \E c \in Callers : Await2(c)
    \/ \E c \in Callers : Continue2(c)
    \/ \E t \in DOMAIN tasks : Loop2(t)
    \/ \E s \in DOMAIN socks, f \in {OpenText, AckText, ConnectedText} : Server2Send(s, f)
    \/ \E s \in DOMAIN socks, m \in Terminals : Server2End(s, m)

SpecTwo == InitTwo /\ [][NextTwo]_vars

\* ---------------------------------------------- two instances, one session
(* Two line clients of one router, built on the same Client: here client,   *)
(* ws, listen_task, handlers, pc, op and result give the field of each      *)
(* instance; socks and tasks hold the sockets and tasks of both, a task     *)
(* naming the instance whose _listen_messages it runs (self); hsLog keeps,  *)
(* per instance, the registrations made through its on(); last names the    *)
(* instance that dispatched or emitted in the last step.                    *)
Insts == {1, 2}

MaxPerEvent == 1

\* a table that is one dict of the class, shared by every instance
shared(i) == 1

\* the dict self._handlers of instance i, created in its __init__
own(i) == i

Quiet3 == [inst |-> 0, calls |-> <<>>, emit |-> "none"]

InitPair ==
    /\ client = [i \in Insts |-> [family |-> "line",
                                  key |-> IF i = 1 THEN "ntp1" ELSE "ntp2"]]
    /\ session = "PHPSESSID123"
    /\ ws = [i \in Insts |-> 0]
    /\ listen_task = [i \in Insts |-> 0]
    /\ handlers = [i \in Insts |-> [e \in Events |-> <<>>]]
    /\ socks = <<>>
    /\ tasks = <<>>
    /\ htasks = 0
    /\ pc = [i \in Insts |-> "idle"]
    /\ op = [i \in Insts |-> "none"]
    /\ result = [i \in Insts |-> "none"]
    /\ hsLog = [i \in Insts |-> {}]
    /\ last = Quiet3
    /\ quiesced = FALSE

NoneBack == \A i \in Insts : pc[i] # "ret"

\* disconnect() of instance i, called with the sockets S; o is the caller
disconnect3(i, S, o) ==
    /\ IF TaskLive(listen_task[i])
       THEN /\ tasks' = [tasks EXCEPT ![listen_task[i]].cancel = TRUE,
                                      ![listen_task[i]].cut =
                                          Buffered(S, listen_task[i])]
            /\ socks' = S
            /\ ws' = ws
            /\ pc' = [pc EXCEPT ![i] = "d_await"]
            /\ result' = result
       ELSE /\ tasks' = tasks
            /\ socks' = close(S, ws[i])
            /\ ws' = [ws EXCEPT ![i] = 0]
            /\ pc' = [pc EXCEPT ![i] = "ret"]
            /\ result' = [result EXCEPT ![i] = Outcome(o)]
    /\ last' = Quiet3
    /\ UNCHANGED <<client, session, listen_task, handlers, htasks, hsLog, quiesced>>

\* instance i: disconnect() is called
Disconnect3Call(i) ==
    /\ NoneBack
    /\ pc[i] = "idle"
    /\ op' = [op EXCEPT ![i] = "disconnect"]
    /\ disconnect3(i, socks, "disconnect")

\* instance i: the cancelled task has ended; close, clear self._ws
Await3(i) ==
    /\ NoneBack
    /\ pc[i] = "d_await"
    /\ ~TaskLive(listen_task[i])
    /\ socks' = close(socks, ws[i])
    /\ ws' = [ws EXCEPT ![i] = 0]
    /\ pc' = [pc EXCEPT ![i] = "ret"]
    /\ result' = [result EXCEPT ![i] = Outcome(op[i])]
    /\ last' = Quiet3
    /\ UNCHANGED <<client, session, listen_task, handlers, tasks, htasks, op,
                   hsLog, quiesced>>

\* instance i: connect() is called
Connect3Call(i) ==
    /\ NoneBack
    /\ pc[i] = "idle"
    /\ op' = [op EXCEPT ![i] = "connect"]
    /\ IF ws[i] # 0 /\ ~socks[ws[i]].closed
       THEN /\ pc' = [pc EXCEPT ![i] = "ret"]
            /\ result' = [result EXCEPT ![i] = "ok"]
       ELSE /\ pc' = [pc EXCEPT ![i] = "c_opening"]
            /\ result' = result
    /\ last' = Quiet3
    /\ UNCHANGED <<client, session, ws, listen_task, handlers, socks, tasks,
                   htasks, hsLog, quiesced>>

\* instance i: ws_connect returns a socket
Open3Ok(i) ==
    /\ NoneBack
    /\ pc[i] = "c_opening"
    /\ NoneReady
    /\ Len(socks) < MaxSockets
    /\ socks' = Append(socks, NewSock)
    /\ ws' = [ws EXCEPT ![i] = Len(socks) + 1]
    /\ pc' = [pc EXCEPT ![i] = "c_wait_open"]
    /\ last' = Quiet3
    /\ UNCHANGED <<client, session, listen_task, handlers, tasks, htasks, op,
                   result, hsLog, quiesced>>

\* instance i: ws_connect raises
Open3Fail(i) ==
    /\ NoneBack
    /\ pc[i] = "c_opening"
    /\ disconnect3(i, socks, "connect")
    /\ op' = op

\* instance i: the handshake goes on to its next wait
Proceed3(i, S, a) ==
    /\ socks' = S
    /\ pc' = [pc EXCEPT ![i] = a]
    /\ last' = Quiet3
    /\ UNCHANGED <<client, session, ws, listen_task, handlers, tasks, htasks,
                   result, hsLog, quiesced>>

\* instance i: _finalize_connection creates its read loop; connect() returns
Listen3(i, S) ==
    /\ socks' = S
    /\ tasks' = Append(tasks, [st |-> "created", sock |-> 0, cancel |-> FALSE,
                               cut |-> FALSE, end |-> "", exc |-> FALSE,
                               self |-> i])
    /\ listen_task' = [listen_task EXCEPT ![i] = Len(tasks) + 1]
    /\ pc' = [pc EXCEPT ![i] = "ret"]
    /\ result' = [result EXCEPT ![i] = "ok"]
    /\ last' = Quiet3
    /\ UNCHANGED <<client, session, ws, handlers, htasks, hsLog, quiesced>>

\* instance i: a handshake receive() returns; the step runs to the next await
Hs3(i) ==
    /\ NoneBack
    /\ pc[i] \in Waits
    /\ Avail(socks, ws[i])
    /\ op' = op
    /\ LET m == Recv(socks, ws[i])
           S == AfterRecv(socks, ws[i])
           gone == m.type \in {"CLOSED", "ERROR"}
       IN IF pc[i] = "c_wait_open"
          THEN IF gone \/ S[ws[i]].closed THEN disconnect3(i, S, "connect")
               ELSE Proceed3(i, S, "c_wait_ack")
          ELSE IF pc[i] = "c_wait_ack"
          THEN IF gone \/ (m.type = "TEXT" /\ m.data.d = "40" /\ AckRaises(m.data))
               THEN disconnect3(i, S, "connect")
               ELSE Proceed3(i, S, "c_wait_second")
          ELSE IF pc[i] = "c_wait_second"
          THEN IF gone \/ S[ws[i]].closed THEN disconnect3(i, S, "connect")
               ELSE Proceed3(i, S, "c_wait_final")
          ELSE IF FinalOk(m) THEN Listen3(i, S) ELSE disconnect3(i, S, "connect")

\* instance i: asyncio.TimeoutError at a handshake wait
HsTimeout3(i) ==
    /\ NoneBack
    /\ pc[i] \in TimedWaits
    /\ NoneReady
    /\ ~Avail(socks, ws[i])
    /\ op' = op
    /\ disconnect3(i, socks, "connect")

\* instance i: its caller runs on after connect() or disconnect()
Continue3(i) ==
    /\ pc[i] = "ret"
    /\ pc' = [pc EXCEPT ![i] = "idle"]
    /\ result' = [result EXCEPT ![i] = "none"]
    /\ op' = [op EXCEPT ![i] = "none"]
    /\ last' = Quiet3
    /\ UNCHANGED <<client, session, ws, listen_task, handlers, socks, tasks,
                   htasks, hsLog, quiesced>>

\* instance i: on(event, handler)
On3(i, e, h) ==
    /\ NoneBack
    /\ pc[i] = "idle"
    /\ Len(handlers[own(i)][e]) < MaxPerEvent
    /\ handlers' = [handlers EXCEPT ![own(i)][e] = Append(@, h)]
    /\ hsLog' = [hsLog EXCEPT ![i] = @ \cup {<<e, h>>}]
    /\ last' = Quiet3
    /\ UNCHANGED <<client, session, ws, listen_task, socks, tasks, htasks, pc, op,
                   result, quiesced>>

\* instance i: emit(event, data)
Emit3(i, e, d) ==
    /\ NoneBack
    /\ pc[i] = "idle"
    /\ last' = [Quiet3 EXCEPT !.inst = i,
                              !.emit = IF ws[i] = 0 \/ socks[ws[i]].closed
                                       THEN "NotConnected" ELSE "ok"]
    /\ UNCHANGED <<client, session, ws, listen_task, handlers, socks, tasks,
                   htasks, pc, op, result, hsLog, quiesced>>

\* on_message of the line client, instance i, and its _emit_event
on_message3(i, data) ==
    IF data.k # "list" \/ data.a = "" THEN NoCalls
    ELSE IF CountRaises(data.a, data.b) THEN [NoCalls EXCEPT !.raised = TRUE]
    ELSE IF data.a \notin DOMAIN handlers[own(i)] \/ handlers[own(i)][data.a] = <<>>
         THEN Emitted(data.a, Raw(data.b))
         ELSE EmitFrom(handlers[own(i)][data.a], 1, data.a, Raw(data.b),
                       Emitted(data.a, Raw(data.b)))

\* one step of _listen_messages, task t of instance tasks[t].self
Loop3(t) ==
    /\ NoneBack
    /\ tasks[t].st # "done"
    /\ LET i == tasks[t].self
       IN IF tasks[t].cancel
          THEN /\ tasks' = Done(t, "cancel")
               /\ socks' = socks
               /\ last' = Quiet3
          ELSE IF tasks[t].st = "created"
               THEN /\ tasks' = IF ws[i] = 0 THEN Done(t, "error")
                                ELSE [tasks EXCEPT ![t].st = "waiting",
                                                   ![t].sock = ws[i]]
                    /\ socks' = socks
                    /\ last' = Quiet3
               ELSE LET s == tasks[t].sock
                        m == Recv(socks, s)
                        p == parse_engineio_packet(m.data)
                        r == IF p.ok /\ p.type = 4 THEN on_message3(i, p.data)
                             ELSE NoCalls
                    IN /\ Avail(socks, s)
                       /\ socks' = AfterRecv(socks, s)
                       /\ IF m.type # "TEXT"
                          THEN tasks' = Done(t, "stop") /\ last' = Quiet3
                          ELSE IF is_ping(m.data)
                               THEN /\ tasks' = IF ws[i] = 0 \/ socks[ws[i]].closed
                                                THEN Done(t, "error") ELSE tasks
                                    /\ last' = Quiet3
                               ELSE /\ tasks' = IF r.raised THEN Done(t, "error")
                                                ELSE tasks
                                    /\ last' = [Quiet3 EXCEPT !.inst = i,
                                                              !.calls = r.calls]
    /\ UNCHANGED <<client, session, ws, listen_task, handlers, htasks, pc, op,
                   result, hsLog, quiesced>>

\* the server sends a frame on the socket of instance i
Server3Send(i, f) ==
    /\ NoneBack
    /\ ws[i] # 0
    /\ ~socks[ws[i]].closed
    /\ ~socks[ws[i]].eof
    /\ Len(socks[ws[i]].inbox) < MaxInbox
    /\ socks' = [socks EXCEPT ![ws[i]].inbox = Append(@, Text(f))]
    /\ last' = Quiet3
    /\ UNCHANGED <<client, session, ws, listen_task, handlers, tasks, htasks, pc,
                   op, result, hsLog, quiesced>>

\* the server closes the socket of instance i, or its connection breaks
Server3End(i, m) ==
    /\ NoneBack
    /\ ws[i] # 0
    /\ ~socks[ws[i]].closed
    /\ ~socks[ws[i]].eof
    /\ socks' = [socks EXCEPT ![ws[i]].inbox = Append(@, m), ![ws[i]].eof = TRUE]
    /\ last' = Quiet3
    /\ UNCHANGED <<client, session, ws, listen_task, handlers, tasks, htasks, pc,
                   op, result, hsLog, quiesced>>

\* what instance i, its read loop, or the server on its socket may do
Step(i) ==
    \/ Connect3Call(i)
    \/ Open3Ok(i)
    \/ Open3Fail(i)
    \/ Hs3(i)
    \/ HsTimeout3(i)
    \/ Disconnect3Call(i)
    \/ Await3(i)
    \/ Continue3(i)
    \/ \E e \in Events, h \in {"h_sync", "h_raise"} : On3(i, e, h)
    \/ \E e \in Events, d \in Payloads : Emit3(i, e, d)
    \/ \E t \in DOMAIN tasks : tasks[t].self = i /\ Loop3(t)
    \/ \E f \in {OpenText, Frame("42", LINE_NAMESPACES[client[i].key], TRUE,
                                  JList("pageData", "v1"))} : Server3Send(i, f)
    \/ \E m \in {Close, Error} : Server3End(i, m)

NextPair == \E i \in Insts : Step(i)

SpecPair == InitPair /\ [][NextPair]_vars

\* ------------------------------------------------- the codec, on its text
(* A text is a sequence of characters; besides the digits, "/", "," and a   *)
(* letter, a character here may stand for one whole lexeme: "True" (what    *)
(* str() gives for a boolean), "[x]" (a JSON array without "/" or ","),     *)
(* "[/]" (a JSON array with a "/" inside a string), "{k}" (a JSON object).  *)
(* A value is [k, v]: k names its kind ("none" is None) and v its text.     *)
MaxLen == 3

Digits == {"0", "1", "2", "3", "4", "5", "6", "7", "8", "9"}

RECURSIVE TextsUpTo(_)
TextsUpTo(n) ==
    IF n = 0 THEN {<<>>}
    ELSE LET T == TextsUpTo(n - 1)
         IN T \cup {Append(t, c) : t \in T,
                                    c \in Digits \cup {"/", ",", "Z", "True",
                                                       "[x]", "[/]", "{k}"}}

\* int(c) of one digit
DigitVal(c) ==
    CASE c = "0" -> 0 [] c = "1" -> 1 [] c = "2" -> 2 [] c = "3" -> 3
      [] c = "4" -> 4 [] c = "5" -> 5 [] c = "6" -> 6 [] c = "7" -> 7
      [] c = "8" -> 8 [] c = "9" -> 9

None == [k |-> "none", v |-> <<>>]
Str(t) == [k |-> "str", v |-> t]

\* t.find(","), 0 when there is none
FirstComma(t) ==
    IF \E i \in DOMAIN t : t[i] = ","
    THEN CHOOSE i \in DOMAIN t : t[i] = "," /\ \A j \in 1..(i - 1) : t[j] # ","
    ELSE 0

\* json.loads(t); ok = FALSE is JSONDecodeError
json_loads(t) ==
    IF Len(t) = 1 /\ t[1] \in {"[x]", "[/]"} THEN [ok |-> TRUE, val |-> [k |-> "list", v |-> t]]
    ELSE IF Len(t) = 1 /\ t[1] = "{k}" THEN [ok |-> TRUE, val |-> [k |-> "map", v |-> t]]
    ELSE IF t # <<>> /\ (\A i \in DOMAIN t : t[i] \in Digits) /\ (Len(t) = 1 \/ t[1] # "0")
         THEN [ok |-> TRUE, val |-> [k |-> "num", v |-> t]]
         ELSE [ok |-> FALSE, val |-> None]

\* the value after `if data: try json.loads(data) except JSONDecodeError: pass`
Loaded(d) ==
    IF d.k = "str" /\ d.v # <<>> /\ json_loads(d.v).ok THEN json_loads(d.v).val ELSE d

ParseNone == [ok |-> FALSE, type |-> -1, ns |-> <<>>, data |-> None]

\* _parse_engineio_packet on the text; ok = FALSE is None
parse_text(message) ==
    IF message = <<>> THEN ParseNone
    ELSE IF Head(message) \notin Digits THEN ParseNone
    ELSE LET rest == Tail(message)
             c == FirstComma(rest)
             part == IF c = 0 THEN rest ELSE SubSeq(rest, 1, c - 1)
         IN IF \E i \in DOMAIN rest : rest[i] \in {"/", "[/]"}
            THEN [ok |-> TRUE, type |-> DigitVal(Head(message)),
                  ns |-> IF part # <<>> /\ Head(part) = "/" THEN part ELSE <<>>,
                  data |-> IF c = 0 THEN None
                           ELSE Loaded(Str(SubSeq(rest, c + 1, Len(rest))))]
            ELSE [ok |-> TRUE, type |-> DigitVal(Head(message)), ns |-> <<>>,
                  data |-> IF rest = <<>> THEN None ELSE Loaded(Str(rest))]

\* the payloads handed to _send_engineio_packet: None, scalars, a list, a map
Values ==
    {None, Str(<<>>), Str(<<"Z">>), Str(<<"5">>), [k |-> "num", v |-> <<"5">>],
     [k |-> "bool", v |-> <<"True">>], [k |-> "list", v |-> <<"[x]">>],
     [k |-> "list", v |-> <<"[/]">>], [k |-> "map", v |-> <<"{k}">>]}

\* the text _send_engineio_packet builds
packet_text(packet_type, data, namespace) ==
    <<CHOOSE c \in Digits : DigitVal(c) = packet_type>> \o namespace
        \o (IF data = None THEN <<>> ELSE <<",">> \o data.v)

NoCall == [call |-> "none", text |-> <<>>, type |-> -1, ns |-> <<>>, data |-> None,
           out |-> ParseNone]

InitCodec ==
    /\ client \in Clients
    /\ session = "PHPSESSID123"
    /\ ws = 0
    /\ listen_task = 0
    /\ handlers = NoHandlers
    /\ socks = <<>>
    /\ tasks = <<>>
    /\ htasks = 0
    /\ pc = "idle"
    /\ op = "none"
    /\ result = "none"
    /\ hsLog = <<>>
    /\ last = NoCall
    /\ quiesced = FALSE

\* _parse_engineio_packet(message) is called
ParseCall(message) ==
    /\ pc = "idle"
    /\ pc' = "ret"
    /\ op' = "parse"
    /\ last' = [NoCall EXCEPT !.call = "parse", !.text = message,
                              !.out = parse_text(message)]
    /\ UNCHANGED <<client, session, ws, listen_task, handlers, socks, tasks,
                   htasks, result, hsLog, quiesced>>

\* a packet is built as _send_engineio_packet builds it, and the text is parsed
SendCall(packet_type, data, namespace) ==
    /\ pc = "idle"
    /\ pc' = "ret"
    /\ op' = "send"
    /\ last' = [call |-> "send", text |-> packet_text(packet_type, data, namespace),
                type |-> packet_type, ns |-> namespace, data |-> data,
                out |-> parse_text(packet_text(packet_type, data, namespace))]
    /\ UNCHANGED <<client, session, ws, listen_task, handlers, socks, tasks,
                   htasks, result, hsLog, quiesced>>

\* the call has returned
CodecReturn ==
    /\ pc = "ret"
    /\ pc' = "idle"
    /\ op' = "none"
    /\ last' = NoCall
    /\ UNCHANGED <<client, session, ws, listen_task, handlers, socks, tasks,
                   htasks, result, hsLog, quiesced>>

NextCodec ==
    \/ \E message \in TextsUpTo(MaxLen) : ParseCall(message)
    \/ \E t \in 0..6, d \in Values, n \in {<<>>, <<"/", "Z">>} : SendCall(t, d, n)
    \/ CodecReturn

SpecCodec == InitCodec /\ [][NextCodec]_vars

\* ------------------------------------------------- a session that rotates
Cookies == {"NoCookie", "PHPSESSID123", "PHPSESSID456"}

(* The HTTP side of the client changes the PHPSESSID cookie of the jar (a   *)
(* login, a Set-Cookie of the server): nothing of the socket client moves.  *)
Rotate(v) ==
    /\ pc # "ret"
    /\ session \in Cookies \ {v}
    /\ session' = v
    /\ last' = Quiet
    /\ UNCHANGED <<client, ws, listen_task, handlers, socks, tasks, htasks, pc,
                   op, result, hsLog, quiesced>>

NextRotate == Next \/ \E v \in Cookies : Rotate(v)

SpecRotate == Init /\ [][NextRotate]_vars


\* ------------------------------------------- more of what the server sends
(* The server's ping does not depend on what the handlers do: it also comes *)
(* while MaxPending handler tasks are unfinished; a ping starts no task.    *)
ServerPing(s) ==
    /\ pc # "ret"
    /\ ~socks[s].closed
    /\ ~socks[s].eof
    /\ Len(socks[s].inbox) < MaxInbox
    /\ htasks >= MaxPending
    /\ socks' = [socks EXCEPT ![s].inbox = Append(@, Text(PingText))]
    /\ last' = Quiet
    /\ UNCHANGED <<client, session, ws, listen_task, handlers, tasks, htasks, pc,
                   op, result, hsLog, quiesced>>

(* Besides the frames of Next, the server sends the namespace-connect       *)
(* acknowledgements that carry no "sid" (an object without the key, nothing *)
(* after the comma, no comma at all), a pong, a text that does not parse,   *)
(* a Message whose payload is the empty list, and pings while handlers are  *)
(* busy.                                                                    *)
NextWire ==
    \/ Next
    \/ \E s \in DOMAIN socks,
          f \in {Frame("40", service_url, TRUE, JObj("other")),
                 Frame("40", service_url, TRUE, NoBody),
                 Frame("40", service_url, FALSE, NoBody)} : ServerSend(s, f)
    \/ \E s \in DOMAIN socks,
          f \in {Frame("3", "", FALSE, NoBody),
                 Frame("x", "", FALSE, NoBody),
                 Frame("42", service_url, TRUE, JList("", ""))} : ServerSend(s, f)
    \/ \E s \in DOMAIN socks : ServerPing(s)

SpecWire == Init /\ [][NextWire]_vars

\* ------------------------------------------- registration during dispatch
\* await self.on_message([e, d]) when a registered plain function may call
\* self.on(event, h_sync) for the event it is called with
OnMessageReg(e, d) ==
    /\ htasks < MaxPending
    /\ Registered(DOMAIN handlers) < MaxHandlers
    /\ LET r == on_message(JList(e, d))
       IN /\ last' = Handled(JList(e, d), r)
          /\ htasks' = htasks + r.spawned
          /\ handlers' = IF r.added = <<>> THEN handlers
                         ELSE [handlers EXCEPT ![e] = @ \o r.added]
    /\ UNCHANGED <<client, session, ws, listen_task, socks, tasks, pc, op,
                   result, hsLog, quiesced>>

NextReg ==
    \/ \E e \in AllEvents, h \in Handlers \cup {"h_reg"} : On(e, h)
    \/ \E e \in AllEvents \cup {Unhashable}, d \in AllPayloads :
          OnMessageReg(e, d)
    \/ HandlerTask

SpecReg == InitMsg /\ [][NextReg]_vars

\* ------------------------------------------------- routers and constructors
\* instances the routers and the constructors may create
MaxInstances == 3

(* Here client is the instance the last call returned (id 0: none), op the *)
(* call ("router", "ctor"), result how it ended, and last holds the name    *)
(* asked for and the _clients tables of the two routers (0: no entry).      *)
InitNames ==
    /\ client = [family |-> "none", key |-> "", id |-> 0]
    /\ session = "PHPSESSID123"
    /\ ws = 0
    /\ listen_task = 0
    /\ handlers = NoHandlers
    /\ socks = <<>>
    /\ tasks = <<>>
    /\ htasks = 0
    /\ pc = "idle"
    /\ op = "none"
    /\ result = "none"
    /\ hsLog = <<>>
    /\ last = [family |-> "none", name |-> "", made |-> 0,
               line |-> [k \in DOMAIN LINE_NAMESPACES |-> 0],
               breaks |-> [k \in DOMAIN BREAK_NAMESPACES |-> 0]]
    /\ quiesced = FALSE

\* _LinesWSRouter.__getattr__(name), _BreaksWSRouter.__getattr__(name); the
\* latter looks up name.replace("-", "_")
RouterGet(family, name) ==
    LET table == IF family = "line" THEN LINE_NAMESPACES ELSE BREAK_NAMESPACES
        key == IF family = "line" THEN name
               ELSE CASE name = "ntp-one" -> "ntp_one"
                      [] name = "ntp-two" -> "ntp_two"
                      [] name = "ntp-nck" -> "ntp_nck"
                      [] OTHER -> name
    IN /\ op' = "router"
       /\ IF key \notin DOMAIN table
          THEN /\ result' = "raised"
               /\ client' = [family |-> "none", key |-> "", id |-> 0]
               /\ last' = [last EXCEPT !.family = family, !.name = name]
          ELSE IF last[family][key] = 0
               THEN /\ last.made < MaxInstances
                    /\ result' = "ok"
                    /\ client' = [family |-> family, key |-> key,
                                  id |-> last.made + 1]
                    /\ last' = [last EXCEPT !.family = family, !.name = name,
                                            !.made = @ + 1,
                                            ![family][key] = last.made + 1]
               ELSE /\ result' = "ok"
                    /\ client' = [family |-> family, key |-> key,
                                  id |-> last[family][key]]
                    /\ last' = [last EXCEPT !.family = family, !.name = name]
       /\ UNCHANGED <<session, ws, listen_task, handlers, socks, tasks, htasks,
                      pc, hsLog, quiesced>>

\* LineWSClient(client, line=name), BreaksWSClient(client, namespace=name):
\* the name is stored as given
Construct(family, name) ==
    /\ last.made < MaxInstances
    /\ op' = "ctor"
    /\ result' = "ok"
    /\ client' = [family |-> family, key |-> name, id |-> last.made + 1]
    /\ last' = [last EXCEPT !.family = family, !.name = name, !.made = @ + 1]
    /\ UNCHANGED <<session, ws, listen_task, handlers, socks, tasks, htasks,
                   pc, hsLog, quiesced>>

NextNames ==
    \/ \E name \in DOMAIN LINE_NAMESPACES \cup {"other"} :
          RouterGet("line", name) \/ Construct("line", name)
    \/ \E name \in DOMAIN BREAK_NAMESPACES \cup {"ntp-nck", "other"} :
          RouterGet("breaks", name) \/ Construct("breaks", name)

SpecNames == InitNames /\ [][NextNames]_vars

\* ------------------------------------------------------- Client.request
\* Settings.MAX_RETRIES
MAX_RETRIES == 3

(* Here pc is where request() is ("attempt": about to send, "sleep": in    *)
(* asyncio.sleep), result how the call ended, and last holds the loop       *)
(* variable and the outcomes of the HTTP attempts made so far: a status,    *)
(* "429date" for a 429 whose Retry-After is an HTTP date, "transport" for   *)
(* a ClientError raised by the session.                                     *)
InitRest ==
    /\ client \in Clients
    /\ session = "PHPSESSID123"
    /\ ws = 0
    /\ listen_task = 0
    /\ handlers = NoHandlers
    /\ socks = <<>>
    /\ tasks = <<>>
    /\ htasks = 0
    /\ pc = "idle"
    /\ op = "none"
    /\ result = "none"
    /\ hsLog = <<>>
    /\ last = [attempt |-> 0, seen |-> <<>>]
    /\ quiesced = FALSE

\* request() is called and reaches the retry loop
RequestCall ==
    /\ pc = "idle"
    /\ pc' = "attempt"
    /\ op' = "request"
    /\ result' = "none"
    /\ last' = [attempt |-> 0, seen |-> <<>>]
    /\ UNCHANGED <<client, session, ws, listen_task, handlers, socks, tasks,
                   htasks, hsLog, quiesced>>

\* one pass of the loop body: self._session.request(...) ends as r
Attempt(r) ==
    /\ pc = "attempt"
    /\ last' = [last EXCEPT !.seen = Append(@, r)]
    /\ CASE r = "200" -> pc' = "idle" /\ result' = "response"
         [] r = "401" -> pc' = "idle" /\ result' = "AuthenticationError"
         [] r = "429" -> pc' = "sleep" /\ result' = result
         \* float("Wed, 21 Oct ...") raises ValueError, which is no ClientError
         [] r = "429date" -> pc' = "idle" /\ result' = "ValueError"
         \* raise_for_status() and the session raise ClientError
         [] OTHER -> IF last.attempt < MAX_RETRIES
                     THEN pc' = "sleep" /\ result' = result
                     ELSE pc' = "idle" /\ result' = "NetworkError"
    /\ UNCHANGED <<client, session, ws, listen_task, handlers, socks, tasks,
                   htasks, op, hsLog, quiesced>>

\* asyncio.sleep returns and the for loop takes its next value, or ends
Wake ==
    /\ pc = "sleep"
    /\ IF last.attempt < MAX_RETRIES
       THEN /\ pc' = "attempt"
            /\ last' = [last EXCEPT !.attempt = @ + 1]
            /\ result' = result
       ELSE /\ pc' = "idle"
            /\ last' = last
            /\ result' = "NetworkError"
    /\ UNCHANGED <<client, session, ws, listen_task, handlers, socks, tasks,
                   htasks, op, hsLog, quiesced>>

NextRest ==
    \/ RequestCall
    \/ \E r \in {"200", "401", "429", "429date", "500", "transport"} : Attempt(r)
    \/ Wake

SpecRest == InitRest /\ [][NextRest]_vars

\* ================================================================ claims
Kinds(log) == [i \in DOMAIN log |-> log[i].ev]

IsPrefix(a, b) == Len(a) <= Len(b) /\ \A i \in DOMAIN a : a[i] = b[i]

\* connect() has come back to its caller, and how
Returned(o, r) == pc = "ret" /\ op = o /\ result = r

AllClosed == \A s \in DOMAIN socks : socks[s].closed

AllDone == \A t \in DOMAIN tasks : tasks[t].st = "done"

\* the steps of a line-family handshake, in order
LineSteps == <<"rx", "tx", "rx", "rx", "tx", "rx", "spawn">>

(* C1: a line client with a session id reads and writes in the order       *)
(* receive, write the connect frame 40<ns>, receive, receive, write the    *)
(* auth frame 42<ns>,["id",sid], receive, spawn the read loop: exactly two *)
(* frames are written, the loop is spawned only after the fourth inbound   *)
(* message, and when connect() returns after a fourth frame isConnected    *)
(* is true.                                                                *)
C1_LineHandshakeOrder ==
    (client.family = "line" /\ get_session_id # "") =>
        /\ IsPrefix(Kinds(hsLog), LineSteps)
        /\ \A i \in DOMAIN hsLog :
              hsLog[i].ev = "tx" =>
                 hsLog[i].data = IF i = 2 THEN Frame("40", service_url, TRUE, NoBody)
                                 ELSE Frame("42", service_url, TRUE,
                                            JList("id", get_session_id))
        /\ (Returned("connect", "ok") /\ hsLog # <<>>) =>
              /\ Kinds(hsLog) = LineSteps
              /\ hsLog[6].type = "TEXT" => is_connected

\* the server sent open, acknowledgement, 'connected' and one more frame,
\* and connect() has returned
C1_Witness ==
    /\ client.family = "line"
    /\ get_session_id # ""
    /\ Returned("connect", "ok")
    /\ Len(hsLog) = 7
    /\ \A i \in DOMAIN hsLog : hsLog[i].exp
    /\ is_connected

(* C2: connect() called while the socket is present and open opens no      *)
(* socket, writes no frame, spawns no read loop, leaves the client's state *)
(* unchanged and returns success, in both families.                        *)
C2_ConnectWhenConnectedIsNoop ==
    [][(pc = "idle" /\ op' = "connect" /\ is_connected) =>
          /\ pc' = "ret"
          /\ result' = "ok"
          /\ hsLog' = <<>>
          /\ last'.wrote = <<>>
          /\ UNCHANGED <<client, session, ws, listen_task, handlers, socks,
                         tasks, htasks>>]_vars

\* the second connect() of a connected break-room client has returned
C2_Witness ==
    /\ client.family = "breaks"
    /\ Returned("connect", "ok")
    /\ hsLog = <<>>
    /\ is_connected
    /\ TaskLive(listen_task)

(* C3: connect() never returns success after a wait of the handshake (open *)
(* frame, acknowledgement, 'connected', authentication acknowledgement)    *)
(* has received a close or an error.                                       *)
C3_NoSuccessAfterCloseOrError ==
    Returned("connect", "ok") =>
        \A i \in DOMAIN hsLog :
            hsLog[i].ev = "rx" => hsLog[i].type \notin {"CLOSED", "ERROR"}

HandshakeWaits == {"c_wait_open", "c_wait_ack", "c_wait_second", "c_wait_final"}

(* C4: at every wait of the handshake connect() can go on: a message is    *)
(* there to be received, or the timeout of the step can fire.              *)
C4_EveryWaitCanEnd ==
    pc \in HandshakeWaits =>
        \/ Avail(socks, ws)
        \/ ENABLED HsTimeout

(* C5: when connect() raises, disconnect() has run: every socket is        *)
(* closed, the handle is cleared, isConnected is false and no read-loop    *)
(* task is running.                                                        *)
C5_RaiseAfterTeardown ==
    Returned("connect", "raised") =>
        /\ ws = 0
        /\ AllClosed
        /\ ~is_connected
        /\ AllDone

\* connect() has raised after it had opened a socket and read from it
C5_Witness ==
    /\ Returned("connect", "raised")
    /\ Len(hsLog) >= 2
    /\ socks # <<>>

(* C6: disconnect() never raises; when it returns the handle is cleared,   *)
(* every socket is closed and isConnected is false; called again after it  *)
(* has returned, it changes nothing and returns.                           *)
C6_DisconnectIdempotent ==
    /\ []((pc = "ret" /\ op = "disconnect") =>
             /\ result = "ok"
             /\ ws = 0
             /\ AllClosed
             /\ ~is_connected)
    /\ [][(pc = "idle" /\ op' = "disconnect" /\ quiesced) =>
             /\ pc' = "ret"
             /\ result' = "ok"
             /\ UNCHANGED <<client, session, ws, listen_task, handlers, socks,
                            tasks, htasks>>]_vars

\* disconnect() has returned on a client that had connected
C6_Witness ==
    /\ Returned("disconnect", "ok")
    /\ socks # <<>>
    /\ listen_task # 0
    /\ ws = 0

(* C7: disconnect() returns only when the read-loop task has finished, and *)
(* from then on no step calls on_message or a handler, also when a frame   *)
(* was buffered for the loop at the time it was cancelled.                 *)
C7_LoopEndsBeforeReturn ==
    /\ (pc = "ret" /\ op = "disconnect") => AllDone
    /\ quiesced => (AllDone /\ ~last.onmsg /\ last.calls = <<>>)

\* disconnect() has returned after cancelling a read loop that was waiting
\* with a text frame buffered
C7_Witness ==
    /\ Returned("disconnect", "ok")
    /\ listen_task # 0
    /\ tasks[listen_task].cancel
    /\ tasks[listen_task].cut

(* C8: after disconnect() has returned nothing the client started runs or  *)
(* can run: no read loop and no task spawned for an async handler.         *)
C8_NothingRunsAfterDisconnect ==
    quiesced => (AllDone /\ htasks = 0)

(* C9: emit() on a client with no live socket fails with NotConnected,     *)
(* writes nothing and leaves the client's state unchanged.                 *)
C9_EmitNeedsLiveSocket ==
    [][(last'.emit # "none" /\ ~is_connected) =>
          /\ last'.emit = "NotConnected"
          /\ last'.wrote = <<>>
          /\ UNCHANGED <<client, session, ws, listen_task, handlers, socks,
                         tasks, htasks, pc, op, result, hsLog>>]_vars

\* emit() has failed on a socket that was closed from the other side
C9_Witness ==
    /\ last.emit = "NotConnected"
    /\ last.wrote = <<>>
    /\ ws # 0
    /\ socks[ws].closed

(* C10: a dispatch invokes every handler registered for the event, in      *)
(* order and with the same value, whether or not one of them raises, and   *)
(* the read loop that dispatched goes on waiting for the next frame.       *)
C10_RaisingHandlerIsContained ==
    /\ [](last.calls # <<>> =>
             LET e == last.calls[1].event
             IN /\ [i \in DOMAIN last.calls |-> last.calls[i].h] = handlers[e]
                /\ \A i \in DOMAIN last.calls :
                      /\ last.calls[i].event = e
                      /\ last.calls[i].value = last.calls[1].value)
    /\ [][last'.calls # <<>> =>
             \A t \in DOMAIN tasks :
                 tasks[t].st = "waiting" => tasks'[t].st = "waiting"]_vars

\* a dispatch whose first handler raised has gone on to the second, and the
\* read loop is still waiting
C10_Witness ==
    /\ Len(last.calls) = 2
    /\ last.calls[1].h = "h_raise"
    /\ \E t \in DOMAIN tasks : tasks[t].st = "waiting"

(* C11: a dispatch of (event, value) invokes the handlers registered for   *)
(* that event, each once, in the order of registration and with that       *)
(* value, and no other handler; with none registered it invokes nothing    *)
(* and does not fail.                                                      *)
C11_DispatchInOrder ==
    /\ last.emits = <<>> => last.calls = <<>>
    /\ last.emits # <<>> =>
          LET e == last.emits[1].event
              v == last.emits[1].value
          IN /\ Len(last.emits) = 1
             /\ ~last.raised
             /\ e \in DOMAIN handlers
             /\ Len(last.calls) = Len(handlers[e])
             /\ \A i \in DOMAIN last.calls :
                   last.calls[i] = [h |-> handlers[e][i], event |-> e, value |-> v]

\* an event with one handler was dispatched while another event had a
\* different handler
C11_Witness ==
    /\ last.emits # <<>>
    /\ last.emits[1].event = "rawData"
    /\ handlers["rawData"] = <<"h_sync">>
    /\ handlers["pageData"] = <<"h_async">>
    /\ Len(last.calls) = 1

(* C12: the subscriber table changes only by on(), which appends one entry *)
(* at the end of the list of its event and changes nothing else; no step   *)
(* of connect(), disconnect(), emit(), dispatch or the read loop changes   *)
(* it, so registrations outlive a disconnect and a reconnect.              *)
C12_TableOnlyGrows ==
    [][\/ handlers' = handlers
       \/ /\ \E e \in DOMAIN handlers, h \in Handlers :
                handlers' = [handlers EXCEPT ![e] = Append(@, h)]
          /\ last' = Quiet
          /\ UNCHANGED <<client, session, ws, listen_task, socks, tasks, htasks,
                         pc, op, result, hsLog, quiesced>>]_vars

\* one handler registered twice is still there twice after a disconnect
\* and a second connect
C12_Witness ==
    /\ handlers["pageData"] = <<"h_sync", "h_sync">>
    /\ Len(socks) = 2
    /\ socks[1].closed
    /\ Returned("connect", "ok")
    /\ is_connected

(* C13: when the read loop takes the ping frame "2" from its socket (the   *)
(* frame leaves the inbox of a socket that stays open, outside the         *)
(* handshake), the step writes exactly one frame, the pong "3", to that    *)
(* socket, does not call on_message and invokes no handler.                *)
C13_PingAnsweredByPong ==
    [][\A s \in DOMAIN socks :
          (/\ socks[s].inbox # <<>>
           /\ Head(socks[s].inbox) = Text(Frame("2", "", FALSE, NoBody))
           /\ socks'[s].inbox = Tail(socks[s].inbox)
           /\ ~socks'[s].closed
           /\ hsLog' = hsLog)
          => /\ last'.wrote = <<[sock |-> s, frame |-> Frame("3", "", FALSE, NoBody)]>>
             /\ ~last'.onmsg
             /\ last'.emits = <<>>
             /\ last'.calls = <<>>]_vars

\* the read loop has just answered a ping and waits for the next frame
C13_Witness ==
    /\ last.wrote = <<[sock |-> ws, frame |-> Frame("3", "", FALSE, NoBody)]>>
    /\ TaskLive(listen_task)
    /\ tasks[listen_task].st = "waiting"
    /\ handlers["pageData"] # <<>>

\* the decoder the break-room client is to use for a decoded event
Expected(e) ==
    IF e = "authMessage" THEN "AuthMessage"
    ELSE IF e = "userBreaks" THEN "UserBreaks"
    ELSE IF client.key \in {"ntp_one", "ntp_two"} THEN "SimplePageData"
    ELSE "PageData"

C14_RawWitness ==
    /\ client = [family |-> "breaks", key |-> "ntp_nck"]
    /\ last.arg = JList("pageData", "v_simple")
    /\ Len(last.calls) = 1
    /\ ~last.calls[1].value.typed

(* C15: whenever on_message is called with a non-empty list [event, data], *)
(* whatever the data, nothing is raised, one value is dispatched under the *)
(* event name and the read loop goes on waiting for the next frame.        *)
C15_EveryEventDelivered ==
    (last.onmsg /\ last.arg.k = "list" /\ last.arg.a # "") =>
        /\ ~last.raised
        /\ Len(last.emits) = 1
        /\ last.emits[1].event = last.arg.a
        /\ \E t \in DOMAIN tasks : tasks[t].st = "waiting"

(* C16: once connect() has succeeded, a client whose socket is open has a  *)
(* read loop: in no state between the caller's operations is isConnected   *)
(* true while no read-loop task is alive.                                  *)
C16_ConnectedHasLoop ==
    (is_connected /\ pc \in {"idle", "ret"}) => TaskLive(listen_task)

(* C17: however the read loop ends (close, error, end of the stream, an    *)
(* exception while a frame is handled), no exception leaves its task, the  *)
(* step that ends it raises nothing to the caller, no handler is invoked   *)
(* unless a read loop is waiting, and a later disconnect() returns.        *)
C17_LoopEndsSilently ==
    /\ [](\A t \in DOMAIN tasks : ~tasks[t].exc)
    /\ []((pc = "ret" /\ op = "disconnect") => result = "ok")
    /\ [][(\E t \in DOMAIN tasks : tasks[t].st # "done" /\ tasks'[t].st = "done")
             => UNCHANGED <<pc, op, result>>]_vars
    /\ [][last'.calls # <<>> =>
             \E t \in DOMAIN tasks : tasks[t].st = "waiting"]_vars

\* disconnect() has returned on a client whose read loop had ended on an
\* exception raised while it handled a frame
C17_Witness ==
    /\ Returned("disconnect", "ok")
    /\ listen_task # 0
    /\ tasks[listen_task].end = "error"
    /\ ~tasks[listen_task].cancel

(* C18: the client opens a socket only in a connect() the caller has       *)
(* invoked, one per call: the open is awaited only on entry of the call,   *)
(* each step opens at most one socket, and a frame is written only by      *)
(* emit(), by the handshake in progress or by a read loop that is waiting, *)
(* so after a failed connect() or the end of the read loop nothing is      *)
(* opened or written until connect() is called again.                      *)
C18_NoReconnectOnItsOwn ==
    /\ [][Len(socks') # Len(socks) =>
             /\ pc = "c_opening"
             /\ op = "connect"
             /\ Len(socks') = Len(socks) + 1]_vars
    /\ [][(pc' = "c_opening" /\ pc # "c_opening") =>
             (pc = "idle" /\ op' = "connect")]_vars
    /\ [][last'.wrote # <<>> =>
             \/ last'.emit = "ok"
             \/ pc \in HandshakeWaits
             \/ \E t \in DOMAIN tasks : tasks[t].st = "waiting"]_vars

\* a connect() has failed after opening a socket; the caller's emit() then
\* found the client not connected, and no second socket exists
C18_Witness ==
    /\ pc = "idle"
    /\ quiesced
    /\ tasks = <<>>
    /\ Len(socks) = 1
    /\ ws = 0
    /\ last.emit = "NotConnected"


(* C19: at every moment a client owns at most one open socket, and no       *)
(* socket that was opened is left open without being the one the client     *)
(* holds: every socket that is not closed is the socket self._ws names.     *)
C19_AtMostOneOwnedSocket ==
    /\ Cardinality({s \in DOMAIN socks : ~socks[s].closed}) <= 1
    /\ \A s \in DOMAIN socks : ~socks[s].closed => s = ws


(* C20: two instances on one session are independent: whatever instance a   *)
(* does (connect, failed connect, disconnect, on, emit), whatever arrives   *)
(* on its socket and whatever its read loop does, the socket handle, read   *)
(* task and subscriber table of the other instance stay as they were; and   *)
(* an event read from a's socket calls only handlers registered through     *)
(* a's on().                                                                *)
C20_InstancesIndependent ==
    /\ [][\A a \in Insts : Step(a) =>
            \A b \in Insts \ {a} : /\ ws'[b] = ws[b]
                                   /\ listen_task'[b] = listen_task[b]
                                   /\ handlers'[b] = handlers[b]]_vars
    /\ [](\A k \in DOMAIN last.calls :
            <<last.calls[k].event, last.calls[k].h>> \in hsLog[last.inst])

\* both instances are connected with a handler each, and an event that came
\* on the first one's socket has just been dispatched to its handler
C20_Witness ==
    /\ \A i \in Insts : ws[i] # 0 /\ ~socks[ws[i]].closed /\ hsLog[i] # {}
    /\ hsLog[1] # hsLog[2]
    /\ last.inst = 1
    /\ last.calls # <<>>


(* C21: the codec round trip: for every kind 0..6, every namespace and      *)
(* every payload, parsing the text built from (kind, namespace, payload)    *)
(* gives back the same kind, the same namespace and the same payload value. *)
C21_RoundTrip ==
    last.call = "send" =>
        /\ last.out.ok
        /\ last.out.type = last.type
        /\ last.out.ns = last.ns
        /\ last.out.data = last.data

(* C22: parse never raises; it returns None for the empty text and for      *)
(* every text whose first character is not a digit 0..6 (7, 8 and 9         *)
(* included), and a frame for every text that begins with a digit 0..6,     *)
(* whose payload, when it is not valid JSON, is the raw string.             *)
C22_ParseTotal ==
    last.call = "parse" =>
        LET valid == last.text # <<>> /\ Head(last.text) \in Digits
                     /\ DigitVal(Head(last.text)) <= 6
        IN /\ last.out.ok <=> valid
           /\ last.out.ok => last.out.data.k \in {"none", "str", "num", "list", "map"}


(* C23: the families differ in the wait after the acknowledgement of step   *)
(* 3 (the third entry of the handshake): the break-room client receives     *)
(* nothing between the acknowledgement and its authentication frame, the    *)
(* line client receives exactly one message between them.                   *)
C23_FamiliesDifferAfterAck ==
    /\ Len(hsLog) >= 4 =>
          /\ Kinds(SubSeq(hsLog, 1, 3)) = <<"rx", "tx", "rx">>
          /\ hsLog[4].ev = "rx" <=> client.family = "line"
    /\ \A i \in DOMAIN hsLog :
          (hsLog[i].ev = "tx" /\ hsLog[i].data.d = "42") =>
              i = IF client.family = "line" THEN 5 ELSE 4

\* a break-room client with a session id has authenticated right after the
\* acknowledgement and connect() has returned
C23_Witness ==
    /\ client.family = "breaks"
    /\ Returned("connect", "ok")
    /\ Kinds(hsLog) = <<"rx", "tx", "rx", "tx", "spawn">>
    /\ hsLog[4].data.d = "42"


\* where the authentication frame stands in the handshake log
AuthAt == IF client.family = "line" THEN 5 ELSE 4

\* connect() has failed in this step
Fails == pc' = "d_await" \/ (pc' = "ret" /\ result' = "raised")

(* C24: the authentication frame 42<ns>,["id",<sid>] is written if and only *)
(* if there is a session id.  In the step that takes the last message       *)
(* before step 5: with an id and an open socket exactly one such frame is   *)
(* written; with an id and a closed socket connect() fails and no frame is  *)
(* written; without an id no such frame is written and connect() does not   *)
(* fail.                                                                    *)
C24_AuthIffSessionId ==
    /\ [](\A i \in DOMAIN hsLog :
            (hsLog[i].ev = "tx" /\ hsLog[i].data.d = "42") =>
                /\ i = AuthAt
                /\ get_session_id # ""
                /\ hsLog[i].data = Frame("42", service_url, TRUE,
                                         JList("id", get_session_id)))
    /\ [][(/\ pc = IF client.family = "line" THEN "c_wait_second" ELSE "c_wait_ack"
           /\ Len(hsLog') > Len(hsLog)
           /\ Recv(socks, ws).type \notin {"CLOSED", "ERROR"}
           /\ ~(Recv(socks, ws).type = "TEXT" /\ Recv(socks, ws).data.d = "40"
                /\ client.family = "breaks" /\ AckRaises(Recv(socks, ws).data)))
          => IF get_session_id = ""
             THEN ~Fails /\ \A i \in DOMAIN hsLog' : hsLog'[i].ev = "tx" => i = 2
             ELSE IF AfterRecv(socks, ws)[ws].closed
                  THEN Fails /\ Len(hsLog') = AuthAt - 1
                  ELSE /\ ~Fails
                       /\ Len(hsLog') >= AuthAt
                       /\ hsLog'[AuthAt].ev = "tx"
                       /\ last'.wrote = Wrote(ws, hsLog'[AuthAt].data)]_vars

\* with a session id, the socket had closed when step 5 came: connect()
\* has raised and the log ends before the authentication frame
C24_Witness ==
    /\ get_session_id # ""
    /\ Returned("connect", "raised")
    /\ Len(hsLog) = AuthAt - 1
    /\ hsLog[AuthAt - 1].type = "CLOSE"


(* C25: the session id is read at each handshake and never written: the     *)
(* authentication frame a step writes carries the value the PHPSESSID       *)
(* cookie has when that step runs, whatever it was at an earlier connect,   *)
(* and no step of the client changes the cookie.                            *)
C25_SessionReadFresh ==
    /\ [][(Len(hsLog') >= AuthAt /\ Len(hsLog) < AuthAt
           /\ hsLog'[AuthAt].ev = "tx")
          => /\ session \in Cookies \ {"NoCookie"}
             /\ hsLog'[AuthAt].data.body = JList("id", session)]_vars
    /\ [][session' # session
          => UNCHANGED <<client, ws, listen_task, handlers, socks, tasks, htasks,
                         pc, op, result, hsLog, quiesced>>]_vars

\* a second connect() has authenticated with the cookie value that replaced
\* the one used before
C25_Witness ==
    /\ Returned("connect", "ok")
    /\ Len(socks) = 2
    /\ session = "PHPSESSID456"
    /\ Len(hsLog) >= AuthAt
    /\ hsLog[AuthAt].data.body = JList("id", "PHPSESSID456")


(* C26: apart from the wait after step 3 the two families run the same      *)
(* handshake: a connect() that succeeds with a session id has received,     *)
(* written the connect frame, received, (line only: received once more,)    *)
(* written the authentication frame, received one more frame (step 6) and   *)
(* only then spawned the read loop.                                         *)
C26_SameStepsBothFamilies ==
    (Returned("connect", "ok") /\ hsLog # <<>> /\ get_session_id # "") =>
        Kinds(hsLog) = IF client.family = "line" THEN LineSteps
                       ELSE <<"rx", "tx", "rx", "tx", "rx", "spawn">>

(* C27: the handshake is gated by the frames it expects: the connect frame  *)
(* is written only after a frame of kind Open (a text beginning with "0")   *)
(* was received in step 1, the handshake goes past step 3 only after a text *)
(* beginning with "40", and a connect() that took any other frame at these  *)
(* steps does not succeed.                                                  *)
C27_GatedByExpectedFrames ==
    /\ Len(hsLog) >= 2 => hsLog[1].exp
    /\ Len(hsLog) >= 4 => hsLog[3].exp
    /\ (Returned("connect", "ok") /\ hsLog # <<>>) => hsLog[1].exp /\ hsLog[3].exp


(* C28: in step 3 an acknowledgement without a session token is accepted in *)
(* every form: when the message taken at step 3 is a text beginning with    *)
(* "40", with an object that has no "sid", with nothing after the comma or  *)
(* with no comma, connect() does not fail in that step.                     *)
C28_AckWithoutTokenAccepted ==
    [][(/\ pc = "c_wait_ack"
        /\ Len(hsLog') > Len(hsLog)
        /\ Recv(socks, ws).type = "TEXT"
        /\ Recv(socks, ws).data.d = "40")
       => ~Fails]_vars


(* C29: a client has at most one live read-loop task at any time, and every *)
(* live read-loop task is the one its handle _listen_task holds (the one    *)
(* disconnect() cancels and awaits), whatever connect(), failed connect(),  *)
(* remote close and disconnect() calls are interleaved.                     *)
C29_OneLiveLoopInHandle ==
    /\ Cardinality({t \in DOMAIN tasks : tasks[t].st # "done"}) <= 1
    /\ \A t \in DOMAIN tasks : tasks[t].st # "done" => t = listen_task


(* C30: dispatch does not wait for suspending handlers: while tasks of      *)
(* async handlers are unfinished, a read loop that has a message waiting    *)
(* can always take it, and when that message is a ping and the socket is    *)
(* open the step writes the pong and the loop goes on waiting.              *)
C30_HeartbeatNotStarved ==
    /\ [](\A t \in DOMAIN tasks :
            (/\ htasks > 0
             /\ pc # "ret"
             /\ tasks[t].st = "waiting"
             /\ Avail(socks, tasks[t].sock))
            => ENABLED Loop(t))
    /\ [][\A t \in DOMAIN tasks :
            (/\ htasks > 0
             /\ tasks[t].st = "waiting"
             /\ ~tasks[t].cancel
             /\ Avail(socks, tasks[t].sock)
             /\ Recv(socks, tasks[t].sock) = Text(PingText)
             /\ socks' = AfterRecv(socks, tasks[t].sock)
             /\ socks' # socks
             /\ ~PongRaises)
            => /\ last'.wrote = Wrote(ws, Frame("3", "", FALSE, NoBody))
               /\ tasks'[t].st = "waiting"
               /\ htasks' = htasks]_vars

\* an async handler started by a dispatch has not finished, and the read
\* loop has just answered the ping that came after the event
C30_Witness ==
    /\ htasks > 0
    /\ last.wrote = Wrote(ws, Frame("3", "", FALSE, NoBody))
    /\ TaskLive(listen_task)
    /\ tasks[listen_task].st = "waiting"


(* C31: when a plain handler calls on() for the event that is being        *)
(* dispatched, the dispatch in progress invokes exactly the handlers that  *)
(* were registered for the event when it began, each once and in order;    *)
(* the handler registered meanwhile is not invoked before the next         *)
(* dispatch.                                                               *)
C31_RegistrationDuringDispatch ==
    [][(last'.onmsg /\ last'.emits # <<>>) =>
          LET e == last'.emits[1].event
          IN e \in DOMAIN handlers =>
                /\ Len(last'.calls) = Len(handlers[e])
                /\ \A i \in DOMAIN last'.calls :
                      last'.calls[i].h = handlers[e][i]]_vars


\* a text frame the read loop has nothing to do with: it does not parse, or
\* it is not of kind Message and no ping, or its payload is no non-empty list
Dropped(f) ==
    LET p == parse_engineio_packet(f)
    IN /\ ~is_ping(f)
       /\ \/ ~p.ok
          \/ p.type # 4
          \/ p.data.k # "list"
          \/ p.data.a = ""

(* C32: when the read loop takes a text frame that does not parse, or is   *)
(* not of kind Message (and no ping), or is a Message whose payload is not *)
(* a non-empty list, the step invokes no handler, dispatches nothing,      *)
(* starts no handler task and writes nothing, and the loop still waits on  *)
(* the same socket, able to take the next frame.                           *)
C32_OtherFramesDropped ==
    /\ [][\A t \in DOMAIN tasks :
            (/\ tasks[t].st = "waiting"
             /\ ~tasks[t].cancel
             /\ Avail(socks, tasks[t].sock)
             /\ Recv(socks, tasks[t].sock).type = "TEXT"
             /\ Dropped(Recv(socks, tasks[t].sock).data)
             /\ socks' = AfterRecv(socks, tasks[t].sock)
             /\ socks' # socks)
            => /\ last'.calls = <<>>
               /\ last'.emits = <<>>
               /\ last'.wrote = <<>>
               /\ ~last'.raised
               /\ htasks' = htasks
               /\ handlers' = handlers
               /\ tasks' = tasks]_vars
    /\ [](\A t \in DOMAIN tasks :
            (/\ pc # "ret"
             /\ tasks[t].st = "waiting"
             /\ Avail(socks, tasks[t].sock))
            => ENABLED Loop(t))

\* the read loop has just handed a Message without a list payload to
\* on_message, nothing was dispatched, and the loop is waiting again
C32_Witness ==
    /\ last.onmsg
    /\ last.arg.k # "list"
    /\ last.calls = <<>>
    /\ last.emits = <<>>
    /\ TaskLive(listen_task)
    /\ tasks[listen_task].st = "waiting"


\* the namespace path of the client's construction argument
ChosenPath ==
    IF client.family = "line" THEN LINE_NAMESPACES[client.key]
    ELSE BREAK_NAMESPACES[client.key]

(* C33: emit(event, data) on an open socket writes exactly one frame on    *)
(* that socket: digit 4, the namespace path, a comma and the array [event] *)
(* (data nil) or [event, data]; on a socket that is absent or closed it    *)
(* writes nothing.  Every frame of kind 4 the client writes (connect,      *)
(* authentication, emit) carries the namespace path chosen at              *)
(* construction, and the client's namespace never changes.                 *)
C33_EmitFrameAndNamespace ==
    /\ [][\A e \in Events, d \in Payloads \cup {""} :
            (Emit(e, d) /\ is_connected)
            => last'.wrote = <<[sock |-> ws,
                                frame |-> Frame("4", ChosenPath, TRUE,
                                                [k |-> "list", a |-> e, b |-> d])]>>]_vars
    /\ [](last.emit = "NotConnected" => last.wrote = <<>>)
    /\ [](\A i \in DOMAIN last.wrote :
            FirstDigit(last.wrote[i].frame.d) = 4
            => /\ last.wrote[i].frame.ns = ChosenPath
               /\ last.wrote[i].frame.sep)
    /\ [][client' = client]_vars

\* emit("pageData") with no data has just written the one-element array on
\* the open socket
C33_Witness ==
    /\ last.emit = "ok"
    /\ is_connected
    /\ last.wrote = <<[sock |-> ws,
                       frame |-> Frame("4", ChosenPath, TRUE,
                                       [k |-> "list", a |-> "pageData", b |-> ""])]>>


(* C34: a feed asked for by a name outside ntp1, ntp2, nck (lines) or      *)
(* ntp_one, ntp_two, ntp_nck (break rooms), through the router or the      *)
(* constructor, raises and yields no client; a known name yields the       *)
(* client of exactly that namespace; the router returns the instance it    *)
(* returned before, and its table entries never change.                    *)
C34_UnknownNameRejected ==
    /\ [](op \in {"router", "ctor"} =>
            LET table == IF last.family = "line" THEN LINE_NAMESPACES
                         ELSE BREAK_NAMESPACES
            IN IF last.name \in DOMAIN table
               THEN /\ result = "ok"
                    /\ client.id # 0
                    /\ client.family = last.family
                    /\ service_url = table[last.name]
                    /\ op = "router" => client.id = last[last.family][last.name]
               ELSE /\ result = "raised"
                    /\ client.id = 0)
    /\ [][/\ \A k \in DOMAIN LINE_NAMESPACES :
               last.line[k] # 0 => last'.line[k] = last.line[k]
          /\ \A k \in DOMAIN BREAK_NAMESPACES :
               last.breaks[k] # 0 => last'.breaks[k] = last.breaks[k]]_vars


\* the steps request() can still take at most: two for each attempt left
\* (the attempt and the sleep after it)
StepsLeft ==
    IF pc = "idle" THEN 0
    ELSE 2 * (MAX_RETRIES + 1 - Len(last.seen)) + (IF pc = "sleep" THEN 2 ELSE 1)

(* C38: request() makes at most MAX_RETRIES + 1 HTTP attempts, every 429   *)
(* and every transport or status error using up one; each step of a call  *)
(* brings it nearer to its end; and it ends with the response of the first *)
(* successful attempt, with AuthenticationError at the first 401, or with  *)
(* NetworkError after MAX_RETRIES + 1 attempts that were all 429s or       *)
(* errors.                                                                 *)
C38_BoundedAttempts ==
    /\ [](Len(last.seen) <= MAX_RETRIES + 1)
    /\ [][pc # "idle" => StepsLeft' < StepsLeft]_vars
    /\ [](op = "request" /\ pc = "idle" =>
            LET n == Len(last.seen)
            IN /\ n >= 1
               /\ \A i \in 1..(n - 1) : last.seen[i] \notin {"200", "401"}
               /\ result \in {"response", "AuthenticationError", "NetworkError"}
               /\ result = "response" <=> last.seen[n] = "200"
               /\ result = "AuthenticationError" <=> last.seen[n] = "401"
               /\ result = "NetworkError" =>
                      /\ n = MAX_RETRIES + 1
                      /\ last.seen[n] \notin {"200", "401"})


\* the steps of a complete handshake of this client: the authentication
\* frame is written when there is a session id, and the line client takes
\* one message before it and one more before it spawns the read loop
FullHandshake ==
    <<"rx", "tx", "rx">>
        \o (IF client.family = "line" THEN <<"rx">> ELSE <<>>)
        \o (IF get_session_id # "" THEN <<"tx">> ELSE <<>>)
        \o (IF client.family = "line" THEN <<"rx">> ELSE <<>>)
        \o <<"spawn">>

(* C35: after disconnect() has returned the client can connect again: the  *)
(* handle is clear, so a connect() called then passes its guard and starts *)
(* with an empty handshake log; the socket it opens is a new one; when it  *)
(* returns having spawned the read loop, it has gone through every step of *)
(* the handshake from the first; no step of connect() or disconnect()      *)
(* changes the subscriber table, and a dispatch made by the read loop      *)
(* invokes the handlers that are in the table.                             *)
C35_ReconnectAfterDisconnect ==
    /\ [][(quiesced /\ pc = "idle" /\ pc' # "idle" /\ op' = "connect")
          => /\ ws = 0
             /\ hsLog' = <<>>
             /\ session # "NoSession" => pc' = "c_opening"]_vars
    /\ [][(pc = "c_opening" /\ pc' = "c_wait_open")
          => /\ ws' \notin DOMAIN socks
             /\ socks'[ws'] = NewSock]_vars
    /\ []((Returned("connect", "ok") /\ hsLog # <<>>)
          => /\ Kinds(hsLog) = FullHandshake
             /\ hsLog[2] = Tx(ConnectPacket)
             /\ TaskLive(listen_task)
             /\ tasks[listen_task].st = "created")
    /\ [][(pc # "idle" \/ pc' # "idle") => handlers' = handlers]_vars
    /\ []((last.onmsg /\ last.emits # <<>> /\ ~last.raised)
          => LET e == last.emits[1].event
             IN e \in DOMAIN handlers =>
                   /\ Len(last.calls) = Len(handlers[e])
                   /\ \A i \in DOMAIN last.calls :
                         last.calls[i].h = handlers[e][i])

\* the read loop of the first connection was cancelled by disconnect(), a
\* second connect() has opened the second socket and spawned the second
\* loop, and that loop has just dispatched an event to a handler
C35_Witness ==
    /\ Len(tasks) = 2
    /\ tasks[1].end = "cancel"
    /\ socks[1].closed
    /\ ws = 2
    /\ listen_task = 2
    /\ tasks[2].st = "waiting"
    /\ tasks[2].sock = 2
    /\ last.onmsg
    /\ last.calls # <<>>


(* C36: is_connected is true exactly when the handle names a socket that   *)
(* is not closed.  So it is true as soon as ws_connect has returned, and   *)
(* at every wait of the handshake while the socket stays open, before the  *)
(* authentication frame is written; an emit() made at such a wait is       *)
(* accepted and writes one frame on that socket.                           *)
C36_ConnectedDuringHandshake ==
    /\ [](is_connected <=> (ws \in DOMAIN socks /\ socks[ws].closed = FALSE))
    /\ [][(pc = "c_opening" /\ pc' = "c_wait_open") => is_connected']_vars
    /\ [](pc \in HandshakeWaits =>
            /\ ws \in DOMAIN socks
            /\ ~socks[ws].closed => is_connected)
    /\ [][(/\ pc \in HandshakeWaits
           /\ ~socks[ws].closed
           /\ last'.emit # "none")
          => /\ last'.emit = "ok"
             /\ Len(last'.wrote) = 1
             /\ last'.wrote[1].sock = ws
             /\ pc' = pc]_vars

\* connect() waits for the acknowledgement, nothing but the connect frame
\* has been written by it, and an emit() has just written its frame
C36_Witness ==
    /\ pc = "c_wait_ack"
    /\ is_connected
    /\ \A i \in DOMAIN hsLog : hsLog[i].ev = "tx" => hsLog[i].data = ConnectPacket
    /\ listen_task = 0
    /\ last.emit = "ok"
    /\ Len(last.wrote) = 1


\* the messages connect() has received in this call
Received(log) == Cardinality({i \in DOMAIN log : log[i].ev = "rx"})

(* C37: a message that connect() receives at a wait of the handshake is    *)
(* taken off the socket and is not handed to on_message or to a handler,   *)
(* starts no handler task, and is answered with no pong (the step writes   *)
(* nothing but the connect or the authentication frame), whatever the      *)
(* message is; the line client has taken four messages when it spawns the  *)
(* read loop, the break-room client two, and an event that arrives on the  *)
(* socket once the loop waits there is handed to on_message by the loop.   *)
C37_HandshakeConsumesFrames ==
    /\ [][(pc \in HandshakeWaits /\ Received(hsLog') > Received(hsLog))
          => /\ Received(hsLog') = Received(hsLog) + 1
             /\ Avail(socks, ws)
             /\ \/ socks' = AfterRecv(socks, ws)
                \/ socks' = close(AfterRecv(socks, ws), ws)
             /\ ~last'.onmsg
             /\ last'.calls = <<>>
             /\ last'.emits = <<>>
             /\ htasks' = htasks
             /\ \A i \in DOMAIN last'.wrote :
                   last'.wrote[i].frame.d \in {"40", "42"}]_vars
    /\ []((Returned("connect", "ok") /\ hsLog # <<>>)
          => Received(hsLog) = IF client.family = "line" THEN 4 ELSE 2)
    /\ [][\A t \in DOMAIN tasks, e \in Events, v \in Payloads :
            (/\ tasks[t].st = "waiting"
             /\ ~tasks[t].cancel
             /\ Avail(socks, tasks[t].sock)
             /\ Recv(socks, tasks[t].sock) = Text(EventText(e, v))
             /\ socks' = AfterRecv(socks, tasks[t].sock)
             /\ socks' # socks)
            => /\ pc \notin HandshakeWaits \/ tasks[t].sock # ws
               /\ last'.onmsg
               /\ last'.arg = JList(e, v)]_vars

\* the line client's connect() has returned with the read loop spawned,
\* and the message it took where it waits for "connected" was another text
C37_Witness ==
    /\ client.family = "line"
    /\ Returned("connect", "ok")
    /\ Received(hsLog) = 4
    /\ hsLog[4].type = "TEXT"
    /\ ~hsLog[4].exp
    /\ ~last.onmsg
    /\ socks[ws].inbox = <<>>

====
